---- MODULE Spec2Model ----
(***************************************************************************)
(* Verification model of rust-lightning's multi-path route finder          *)
(* (lightning/src/routing/router.rs) and of the on-chain package template  *)
(* (lightning/src/ln/onchain_utils.rs).                                    *)
(*                                                                         *)
(* get_route is a pure function of its arguments.  The arguments are drawn *)
(* in Init and the actions step through the function body: argument checks *)
(* and first hops (Entry), seeding of one path search (SeedTargets), one   *)
(* action per node popped from the heap (ExpandNode / ConstructPath /      *)
(* HeapExhausted), the loop test (StepThree) and the path combination      *)
(* (CombinePaths).                                                         *)
(*                                                                         *)
(* Machine integers are scaled: u64 is WordBits wide and u32 is U32Bits    *)
(* wide, so that checked arithmetic can be evaluated by the model checker. *)
(* Option<T> is a sequence of length at most one.                          *)
(***************************************************************************)
EXTENDS Integers, Sequences, FiniteSets, TLC

WordBits == 30
U32Bits == 16
U64_MAX == (2 ^ WordBits) - 1
U32_MAX == (2 ^ U32Bits) - 1

None == << >>
Some(x) == << x >>
Unwrap(o) == o[1]

Min(a, b) == IF a <= b THEN a ELSE b

\* HashMap::insert
Put(m, k, v) == [x \in (DOMAIN m) \cup {k} |-> IF x = k THEN v ELSE m[x]]

\* HashMap::remove
Remove(m, k) == [x \in (DOMAIN m) \ {k} |-> m[x]]

EmptyMap == [x \in {} |-> 0]

RECURSIVE SumSeq(_)
SumSeq(s) == IF s = << >> THEN 0 ELSE Head(s) + SumSeq(Tail(s))

(***************************************************************************)
(* Features.  A feature vector is abstracted to what the router asks of    *)
(* it: whether it requires bits unknown to us.                             *)
(***************************************************************************)
FeaturesEmpty == "empty"
FeaturesKnown == "known"
FeaturesUnknownRequired == "unknown_required"

requires_unknown_bits(features) == features = FeaturesUnknownRequired

\* Features::to_context keeps only the known bits relevant to the target
\* context; no init feature is relevant to the channel context.
to_context(features, context) ==
    IF context = "channel" THEN FeaturesEmpty
    ELSE IF features = FeaturesUnknownRequired THEN FeaturesKnown
    ELSE features

(***************************************************************************)
(* Fees                                                                    *)
(***************************************************************************)
RoutingFees(base, ppm) == [base_msat |-> base, proportional_millionths |-> ppm]

checked_add(a, b) == IF a > U64_MAX - b THEN None ELSE Some(a + b)
checked_mul(a, b) == IF b # 0 /\ a > U64_MAX \div b THEN None ELSE Some(a * b)

\* outcome of unreachable!()
Unreachable == -1

compute_fees(amount_msat, channel_fees) ==
    LET proportional_fee_millions == checked_mul(amount_msat, channel_fees.proportional_millionths)
        new_fee == IF proportional_fee_millions = None THEN None
                   ELSE checked_add(channel_fees.base_msat, Unwrap(proportional_fee_millions) \div 1000000)
    IN IF new_fee # None THEN Unwrap(new_fee) ELSE Unreachable

(***************************************************************************)
(* PaymentHop / PaymentPath                                                *)
(***************************************************************************)
RouteHop(pubkey, node_features, scid, channel_features, fee_msat, cltv) ==
    [pubkey |-> pubkey, node_features |-> node_features, short_channel_id |-> scid,
     channel_features |-> channel_features, fee_msat |-> fee_msat, cltv_expiry_delta |-> cltv]

get_fee_weight_msat(hop) ==
    LET at_current_hop_fee_msat == checked_add(hop.hop_use_fee_msat, hop.prev_hop_use_estimate_fee_msat)
        total_fee_msat == IF at_current_hop_fee_msat = None THEN None
                          ELSE checked_add(Unwrap(at_current_hop_fee_msat), hop.following_hops_fees_msat)
    IN IF total_fee_msat # None THEN Unwrap(total_fee_msat) ELSE U64_MAX

get_fee_paid_msat(hop) ==
    LET fee_paid_msat == checked_add(hop.following_hops_fees_msat, hop.route_hop.fee_msat)
    IN IF fee_paid_msat # None THEN Unwrap(fee_paid_msat) ELSE U64_MAX

get_value_msat(path) == path[Len(path)].route_hop.fee_msat

get_total_fee_paid_msat(path) ==
    IF Len(path) < 1 THEN 0 ELSE path[1].following_hops_fees_msat

\* First loop of update_value_and_recompute_fees: i runs from len-1 down to
\* 1 (0-based), i.e. over every hop but the first.
RECURSIVE RecomputeFrom(_, _, _, _)
RecomputeFrom(hops, i, value_msat, total_fee_paid_msat) ==
    IF i < 2 THEN hops
    ELSE LET cur_hop_amount_msat == total_fee_paid_msat + value_msat
             new_fee == compute_fees(cur_hop_amount_msat, hops[i].channel_fees)
             updated == [hops EXCEPT ![i].following_hops_fees_msat = total_fee_paid_msat,
                                     ![i].hop_use_fee_msat = new_fee]
         IN RecomputeFrom(updated, i - 1, value_msat, total_fee_paid_msat + new_fee)

update_value_keeping_fees(hops, value_msat) ==
    [hops EXCEPT ![Len(hops)].route_hop.fee_msat = value_msat]

update_value_and_recompute_fees(hops, value_msat) ==
    LET recomputed == RecomputeFrom(hops, Len(hops), value_msat, 0)
    IN [i \in 1..Len(hops) |->
          IF i < Len(hops)
          THEN [recomputed[i] EXCEPT !.route_hop.fee_msat = recomputed[i + 1].hop_use_fee_msat]
          ELSE [recomputed[i] EXCEPT !.route_hop.fee_msat = value_msat]]

(***************************************************************************)
(* RoutingState                                                            *)
(***************************************************************************)
RouteGraphNode(pubkey, through, to_node) ==
    [pubkey |-> pubkey, lowest_fee_to_peer_through_node |-> through, lowest_fee_to_node |-> to_node]

DirectionalChannelInfo(enabled, cltv, htlc_min, htlc_max, fees) ==
    [enabled |-> enabled, cltv_expiry_delta |-> cltv, htlc_minimum_msat |-> htlc_min,
     htlc_maximum_msat |-> htlc_max, fees |-> fees]

\* DirectionalChannelInfo::default()
DefaultDirectionalChannelInfo == DirectionalChannelInfo(FALSE, 0, 0, None, RoutingFees(0, 0))

RoutingStateNew(payer_node_id, recommended_value_msat) ==
    [targeted_edges |-> << >>,
     weighted_vertices |-> EmptyMap,
     payer_node_id |-> payer_node_id,
     bookkeeped_channels_liquidity_available_msat |-> EmptyMap,
     recommended_value_msat |-> recommended_value_msat,
     already_collected_value_msat |-> 0,
     panicked |-> FALSE]

\* the closure given to or_insert_with in add_vertice
initial_liquidity_available_msat(capacity_sats, htlc_maximum_msat) ==
    IF capacity_sats # None
    THEN IF htlc_maximum_msat # None
         THEN Min(Unwrap(capacity_sats) * 1000, Unwrap(htlc_maximum_msat))
         ELSE Unwrap(capacity_sats) * 1000
    ELSE IF htlc_maximum_msat # None THEN Unwrap(htlc_maximum_msat)
    ELSE 10000 * 1000

\* entry(scid).or_insert_with(..): derive the liquidity only when the
\* channel has no bookkept value yet
RederiveLiquidity(book, scid, capacity_sats, htlc_maximum_msat) ==
    Put(book, scid, initial_liquidity_available_msat(capacity_sats, htlc_maximum_msat))

BookkeepLiquidity(book, scid, capacity_sats, htlc_maximum_msat) ==
    IF scid \in DOMAIN book THEN book
    ELSE Put(book, scid, initial_liquidity_available_msat(capacity_sats, htlc_maximum_msat))

add_vertice(rs, scid, src_node_id, dest_node_id, directional_info, capacity_sats, features, following_hops_fees_msat, net) ==
    IF rs.panicked THEN rs ELSE
    LET book == BookkeepLiquidity(rs.bookkeeped_channels_liquidity_available_msat, scid,
                                  capacity_sats, directional_info.htlc_maximum_msat)
        booked == [rs EXCEPT !.bookkeeped_channels_liquidity_available_msat = book]
        available_liquidity_msat == book[scid]
        value_left_to_collect_msat == rs.recommended_value_msat - rs.already_collected_value_msat
        minimal_liquidity_contribution_msat == value_left_to_collect_msat \div 20
        has_sufficient_liquidity == available_liquidity_msat >= minimal_liquidity_contribution_msat
        can_cover_following_hops == available_liquidity_msat > following_hops_fees_msat
        amount_to_transfer_over_msat == Min(available_liquidity_msat, value_left_to_collect_msat)
    IN
    IF ~(has_sufficient_liquidity /\ can_cover_following_hops
         /\ amount_to_transfer_over_msat >= directional_info.htlc_minimum_msat)
    THEN booked
    ELSE IF src_node_id \notin DOMAIN rs.weighted_vertices /\ src_node_id \notin DOMAIN net.nodes
    THEN [booked EXCEPT !.panicked = TRUE]   \* get(&src_node_id).unwrap() on None
    ELSE
    LET lowest == IF src_node_id \in DOMAIN net.nodes
                  THEN net.nodes[src_node_id].lowest_inbound_channel_fees ELSE None
        old_entry ==
            IF src_node_id \in DOMAIN rs.weighted_vertices
            THEN rs.weighted_vertices[src_node_id]
            ELSE [route_hop |-> RouteHop(dest_node_id, FeaturesEmpty, 0, features, 0, 0),
                  available_liquidity_msat |-> 0,
                  src_lowest_inbound_fees |->
                      IF lowest # None THEN Unwrap(lowest) ELSE RoutingFees(U32_MAX, U32_MAX),
                  channel_fees |-> directional_info.fees,
                  following_hops_fees_msat |-> U64_MAX,
                  hop_use_fee_msat |-> U64_MAX,
                  prev_hop_use_estimate_fee_msat |-> U64_MAX]
        hop_use_fee_msat == compute_fees(amount_to_transfer_over_msat, directional_info.fees)
        not_payer == src_node_id # rs.payer_node_id
        prev_hop_use_estimate_fee_msat ==
            IF not_payer /\ hop_use_fee_msat # Unreachable
            THEN compute_fees(following_hops_fees_msat + hop_use_fee_msat + amount_to_transfer_over_msat,
                              old_entry.src_lowest_inbound_fees)
            ELSE 0
        total_fee_msat ==
            IF not_payer
            THEN following_hops_fees_msat + hop_use_fee_msat + prev_hop_use_estimate_fee_msat
            ELSE following_hops_fees_msat
        new_graph_node == RouteGraphNode(src_node_id, total_fee_msat,
                                         following_hops_fees_msat + hop_use_fee_msat)
    IN
    IF hop_use_fee_msat = Unreachable \/ prev_hop_use_estimate_fee_msat = Unreachable
    THEN [booked EXCEPT !.panicked = TRUE]
    ELSE IF get_fee_weight_msat(old_entry) > total_fee_msat
    THEN [booked EXCEPT
            !.targeted_edges = Append(rs.targeted_edges, new_graph_node),
            !.weighted_vertices = Put(rs.weighted_vertices, src_node_id,
                [old_entry EXCEPT
                    !.following_hops_fees_msat = following_hops_fees_msat,
                    !.hop_use_fee_msat = hop_use_fee_msat,
                    !.prev_hop_use_estimate_fee_msat = prev_hop_use_estimate_fee_msat,
                    !.route_hop = RouteHop(dest_node_id, FeaturesEmpty, scid, features, 0,
                                           directional_info.cltv_expiry_delta),
                    !.available_liquidity_msat = available_liquidity_msat,
                    !.channel_fees = directional_info.fees])]
    ELSE [booked EXCEPT !.weighted_vertices = Put(rs.weighted_vertices, src_node_id, old_entry)]

GraphViewAlwaysAllowed(fh, src_node_id, payer_node_id) == TRUE

\* first_hops overrule the channels the graph knows of our node
\* (router.rs 456, 464)
GraphViewAllowed(fh, src_node_id, payer_node_id) ==
    fh = None \/ src_node_id # payer_node_id

DirectionAnnounced(directional_info) == directional_info # None

\* a direction is looked at if it has an update and the update enables it
\* (router.rs 457-458, 465-466)
DirectionUsable(directional_info) ==
    directional_info # None /\ Unwrap(directional_info).enabled

RECURSIVE SelectOverChannels(_, _, _, _, _, _, _)
SelectOverChannels(rs, chans, i, node_id, fee_to_target_msat, fh, net) ==
    IF i > Len(chans) THEN rs
    ELSE LET chan_id == chans[i]
             chan == net.channels[chan_id]
             next ==
                IF requires_unknown_bits(chan.features) THEN rs
                ELSE IF chan.node_one = node_id
                THEN IF GraphViewAllowed(fh, chan.node_two, rs.payer_node_id)
                        /\ DirectionUsable(chan.two_to_one)
                     THEN add_vertice(rs, chan_id, chan.node_two, chan.node_one, Unwrap(chan.two_to_one),
                                      chan.capacity_sats, chan.features, fee_to_target_msat, net)
                     ELSE rs
                ELSE IF GraphViewAllowed(fh, chan.node_one, rs.payer_node_id)
                        /\ DirectionUsable(chan.one_to_two)
                     THEN add_vertice(rs, chan_id, chan.node_one, chan.node_two, Unwrap(chan.one_to_two),
                                      chan.capacity_sats, chan.features, fee_to_target_msat, net)
                     ELSE rs
         IN SelectOverChannels(next, chans, i + 1, node_id, fee_to_target_msat, fh, net)

select_ignoring_node_features(rs, node, node_id, fee_to_target_msat, fh, net) ==
    SelectOverChannels(rs, node.channels, 1, node_id, fee_to_target_msat, fh, net)

select_weighted_vertice_to_target_edge(rs, node, node_id, fee_to_target_msat, fh, net) ==
    LET features == IF node.announcement_info # None
                    THEN Unwrap(node.announcement_info).features ELSE FeaturesEmpty
    IN IF requires_unknown_bits(features) THEN rs
       ELSE SelectOverChannels(rs, node.channels, 1, node_id, fee_to_target_msat, fh, net)

(***************************************************************************)
(* Sorting.  sort_by_key is a stable sort.                                 *)
(***************************************************************************)
\* position of element i after a stable sort by keys
SortedPosition(keys, i) ==
    1 + Cardinality({j \in DOMAIN keys : keys[j] < keys[i] \/ (keys[j] = keys[i] /\ j < i)})

\* the elements of s in ascending order of their keys, equal keys keeping
\* their order
sort_by_key(s, keys) ==
    [k \in 1..Len(s) |-> s[CHOOSE i \in 1..Len(s) : SortedPosition(keys, i) = k]]

(***************************************************************************)
(* Arguments of get_route and its local state                              *)
(***************************************************************************)
VARIABLES
    network,            \* NetworkGraph: nodes and channels
    payee,
    first_hops,         \* Option<&[&ChannelDetails]>
    last_hops,          \* &[&RouteHint]
    final_value_msat,
    final_cltv,
    pc,                 \* position in get_route
    routing_state,
    first_hop_targets,
    payment_paths,
    found_new_path,
    result,             \* Result<Route, LightningError>, or a panic
    package,            \* the PackageTemplate package_merge is called on
    template,           \* the PackageTemplate given to it
    package_before,     \* package as it was before the call
    package_op,         \* "idle", then "merged", "split" or "panicked"
    split_outp,         \* the outpoint package_split is asked for
    weighed,            \* what package_weight returned, None before the call
    returned,           \* Option<PackageTemplate> returned by package_split
    written,            \* the bytes of a serialized PackageTemplate
    decoded,            \* Result<PackageTemplate, DecodeError> of reading them
    signer,             \* which operations of the signer succeed
    finalized,          \* Option<Transaction> returned by package_finalize
    request,            \* the OnchainRequest request_merge is called on
    req,                \* the OnchainRequest given to it
    request_before,     \* request as it was before the call
    request_op,         \* "idle", then "merged" or "panicked"
    merged_requests,    \* the requests merged into request so far
    claim_weight,       \* predicted_weight given to compute_output_value
    claim_amounts,      \* input_amounts given to it
    feerate_previous,   \* previous_feerate given to it
    estimator,          \* what the FeeEstimator answers for each target
    computed,           \* Option<(u64, u64)> returned by compute_output_value
    fee_op,             \* "idle", then "computed"
    fee_attempts,       \* how many returned feerates were stored as feerate_previous
    recompute_hops,     \* the hops of the PaymentPath whose value is updated
    recompute_value,    \* the value_msat it is updated to
    recomputed_hops,    \* its hops after the call
    path_op,            \* "idle", then "updated", "panicked" or "fees ..."
    fee_amount,         \* amount_msat given to compute_fees
    fee_params,         \* channel_fees given to it
    fee_computed,       \* Option<u64>: the fee it returned
    to_validation,      \* CustomMsgHandler: the headers waiting for the validation interface
    to_network,         \* the validated headers waiting to be broadcast
    startup_complete,   \* 0 until the interface is connected, then 1
    interface_stream,   \* Option<TcpStream>
    poisoned,           \* the mutexes a thread panicked under
    process_pc,         \* where the thread in process_pending_events stands
    pending_headers,    \* its local pending_headers
    valid_headers,      \* its local valid_headers
    network_before,     \* to_network when get_and_clear_pending_msg_events was called
    msg_events,         \* the events it returned
    app_op              \* the last call that ended, and how

args == << network, payee, first_hops, last_hops, final_value_msat, final_cltv >>
locals == << routing_state, first_hop_targets, payment_paths, found_new_path >>
template_vars == << package, template, package_before, package_op, split_outp, returned, weighed >>
codec_vars == << written, decoded >>
finalize_vars == << signer, finalized >>
request_vars == << request, req, request_before, request_op, merged_requests >>
fee_vars == << claim_weight, claim_amounts, feerate_previous, estimator, computed, fee_op, fee_attempts >>
path_vars == << recompute_hops, recompute_value, recomputed_hops, path_op, fee_amount, fee_params, fee_computed >>
app_vars == << to_validation, to_network, startup_complete, interface_stream, poisoned, process_pc, pending_headers, valid_headers, network_before, msg_events, app_op >>
package_vars == << template_vars, codec_vars, finalize_vars, request_vars, fee_vars, path_vars, app_vars >>
router_vars == << args, pc, locals, result >>

our_node_id == 0

\* ln::msgs::MAX_VALUE_MSAT = 21_000_000 * 1_0000_0000 * 1000, which is
\* u64::MAX / 8.784; the scaled constant keeps that ratio.
MAX_VALUE_MSAT == (U64_MAX \div 8784) * 1000

ROUTE_CAPACITY_PROVISION_FACTOR == 4

NoResult == [kind |-> "none", err |-> "", paths |-> << >>]
Ok(paths) == [kind |-> "ok", err |-> "", paths |-> paths]
Err(msg) == [kind |-> "err", err |-> msg, paths |-> << >>]
Panic == [kind |-> "panic", err |-> "", paths |-> << >>]

ErrToOurselves == "Cannot generate a route to ourselves"
ErrTooMuchValue == "Cannot generate a route of more value than all existing satoshis"
ErrNoOutbound == "Cannot route when there are no outbound routes away from us"
ErrNoPath == "Failed to find a path to the given destination"
ErrInsufficient == "Failed to find a sufficient route to the given destination"

(***************************************************************************)
(* Step 1: argument checks and first hops (router.rs 498-562)              *)
(***************************************************************************)
\* index of the first channel of hops that ends at the payee, 0 if none
RECURSIVE FirstHopToPayee(_, _, _)
FirstHopToPayee(hops, i, target) ==
    IF i > Len(hops) THEN 0
    ELSE IF hops[i].remote_network_id = target THEN i
    ELSE FirstHopToPayee(hops, i + 1, target)

RECURSIVE InsertFirstHops(_, _, _)
InsertFirstHops(targets, hops, i) ==
    IF i > Len(hops) THEN targets
    ELSE InsertFirstHops(Put(targets, hops[i].remote_network_id,
                             [short_channel_id |-> hops[i].short_channel_id,
                              features |-> hops[i].counterparty_features]),
                         hops, i + 1)

CheckPayeeOnly ==
    IF payee = our_node_id THEN Some(ErrToOurselves) ELSE None

\* the error the arguments are refused with, if any (router.rs 498-504)
CheckArguments ==
    IF payee = our_node_id THEN Some(ErrToOurselves)
    ELSE IF final_value_msat > MAX_VALUE_MSAT THEN Some(ErrTooMuchValue)
    ELSE None

Entry ==
    /\ pc = "start"
    /\ UNCHANGED << package_vars, args, payment_paths, found_new_path >>
    /\ IF CheckArguments # None
       THEN /\ result' = Err(Unwrap(CheckArguments))
            /\ pc' = "done"
            /\ UNCHANGED << routing_state, first_hop_targets >>
       ELSE
       LET recommended_value_msat == final_value_msat * ROUTE_CAPACITY_PROVISION_FACTOR
           hops == IF first_hops # None THEN Unwrap(first_hops) ELSE << >>
           direct == FirstHopToPayee(hops, 1, payee)
           targets == InsertFirstHops(EmptyMap, hops, 1)
       IN /\ routing_state' = RoutingStateNew(our_node_id, recommended_value_msat)
          /\ IF direct # 0
             THEN /\ result' = Ok(<< << RouteHop(hops[direct].remote_network_id,
                                                 to_context(hops[direct].counterparty_features, "node"),
                                                 hops[direct].short_channel_id,
                                                 to_context(hops[direct].counterparty_features, "channel"),
                                                 final_value_msat, final_cltv) >> >>)
                  /\ pc' = "done"
                  /\ first_hop_targets' = InsertFirstHops(EmptyMap, SubSeq(hops, 1, direct - 1), 1)
             ELSE IF first_hops # None /\ DOMAIN targets = {}
             THEN /\ result' = Err(ErrNoOutbound)
                  /\ pc' = "done"
                  /\ first_hop_targets' = targets
             ELSE /\ result' = result
                  /\ pc' = "seed"
                  /\ first_hop_targets' = targets

(***************************************************************************)
(* Top of 'paths_collection: seed the search with the payee's channels and *)
(* the last hops (router.rs 570-621)                                       *)
(***************************************************************************)
AddFirstHopTo(rs, node_id, following_hops_fees_msat) ==
    IF first_hops # None /\ node_id \in DOMAIN first_hop_targets
    THEN add_vertice(rs, first_hop_targets[node_id].short_channel_id, our_node_id, node_id,
                     DefaultDirectionalChannelInfo, None,
                     to_context(first_hop_targets[node_id].features, "channel"),
                     following_hops_fees_msat, network)
    ELSE rs

\* the directional info a route hint is converted to
from_route_hint(hop) ==
    DirectionalChannelInfo(FALSE, hop.cltv_expiry_delta, hop.htlc_minimum_msat,
                           hop.htlc_maximum_msat, hop.fees)

LastHopConsideredDespiteFirstHops(hop) ==
    hop.src_node_id \in DOMAIN network.nodes

\* a last hop is taken if its source is in the graph, and is not our node
\* when there are first hops (router.rs 591-592)
LastHopConsidered(hop) ==
    /\ first_hops = None \/ hop.src_node_id # our_node_id
    /\ hop.src_node_id \in DOMAIN network.nodes

RECURSIVE AddLastHops(_, _)
AddLastHops(rs, i) ==
    IF i > Len(last_hops) THEN rs
    ELSE LET hop == last_hops[i]
         IN IF LastHopConsidered(hop)
            THEN AddLastHops(add_vertice(AddFirstHopTo(rs, hop.src_node_id, 0),
                                         hop.short_channel_id, hop.src_node_id, payee,
                                         from_route_hint(hop), None, FeaturesEmpty, 0, network),
                             i + 1)
            ELSE AddLastHops(rs, i + 1)

ExpandTarget(rs, node_id, fee_to_target_msat) ==
    IF node_id \in DOMAIN network.nodes
    THEN select_weighted_vertice_to_target_edge(AddFirstHopTo(rs, node_id, fee_to_target_msat),
                                                network.nodes[node_id], node_id,
                                                fee_to_target_msat, first_hops, network)
    ELSE rs

SeedTargets ==
    /\ pc = "seed"
    /\ LET cleared == [routing_state EXCEPT !.targeted_edges = << >>,
                                            !.weighted_vertices = EmptyMap]
           seeded == AddLastHops(ExpandTarget(cleared, payee, 0), 1)
       IN /\ routing_state' = seeded
          /\ IF seeded.panicked
             THEN result' = Panic /\ pc' = "done"
             ELSE result' = result /\ pc' = "construct"
    /\ found_new_path' = FALSE
    /\ UNCHANGED << package_vars, args, first_hop_targets, payment_paths >>

(***************************************************************************)
(* 'path_construction: pop the best target (router.rs 624-720)             *)
(***************************************************************************)
\* Ord for RouteGraphNode: a is Greater than b (BinaryHeap pops the greatest)
HeapGreater(a, b) ==
    \/ a.lowest_fee_to_peer_through_node < b.lowest_fee_to_peer_through_node
    \/ /\ a.lowest_fee_to_peer_through_node = b.lowest_fee_to_peer_through_node
       /\ a.pubkey < b.pubkey

\* positions of the heap elements no other element is Greater than
HeapTop(heap) ==
    {i \in 1..Len(heap) : \A j \in 1..Len(heap) : ~HeapGreater(heap[j], heap[i])}

HeapWithout(heap, i) == SubSeq(heap, 1, i - 1) \o SubSeq(heap, i + 1, Len(heap))

ExpandNode ==
    /\ pc = "construct"
    /\ \E i \in HeapTop(routing_state.targeted_edges) :
          LET node == routing_state.targeted_edges[i]
              popped == [routing_state EXCEPT !.targeted_edges = HeapWithout(@, i)]
              expanded == ExpandTarget(popped, node.pubkey, node.lowest_fee_to_node)
          IN /\ node.pubkey # our_node_id
             /\ routing_state' = expanded
             /\ IF expanded.panicked
                THEN result' = Panic /\ pc' = "done"
                ELSE result' = result /\ pc' = "construct"
    /\ UNCHANGED << package_vars, args, first_hop_targets, payment_paths, found_new_path >>

HeapExhausted ==
    /\ pc = "construct"
    /\ routing_state.targeted_edges = << >>
    /\ pc' = "step3"
    /\ UNCHANGED << package_vars, args, locals, result >>

\* u64 multiplication as a build without overflow checks computes it
wrapping_mul(a, b) == (a * b) % (U64_MAX + 1)

\* the panic of a build with overflow checks
MultiplyOverflow == [kind |-> "panic", err |-> "attempt to multiply with overflow", paths |-> << >>]

\* The loop that walks weighted_vertices from our node to the payee
\* (router.rs 635-678).
RECURSIVE WalkToPayee(_, _, _, _)
WalkToPayee(weighted_vertices, ordered_hops, new_entry, path_bottleneck_msat) ==
    LET n == Len(ordered_hops)
        pubkey == ordered_hops[n].route_hop.pubkey
        node_features ==
            IF pubkey \in DOMAIN first_hop_targets
            THEN to_context(first_hop_targets[pubkey].features, "node")
            ELSE IF pubkey \in DOMAIN network.nodes
            THEN IF network.nodes[pubkey].announcement_info # None
                 THEN Unwrap(network.nodes[pubkey].announcement_info).features
                 ELSE FeaturesEmpty
            ELSE ordered_hops[n].route_hop.node_features
        featured == [ordered_hops EXCEPT ![n].route_hop.node_features = node_features]
        bottleneck ==
            IF new_entry.available_liquidity_msat > new_entry.following_hops_fees_msat
            THEN Min(path_bottleneck_msat,
                     new_entry.available_liquidity_msat - new_entry.following_hops_fees_msat)
            ELSE Min(path_bottleneck_msat, new_entry.available_liquidity_msat \div 10)
    IN IF pubkey \notin DOMAIN first_hop_targets /\ pubkey \notin DOMAIN network.nodes /\ pubkey # payee
       THEN [status |-> "assert", hops |-> featured, bottleneck |-> bottleneck]
       ELSE IF pubkey = payee
       THEN [status |-> "ok", hops |-> featured, bottleneck |-> bottleneck]
       ELSE IF pubkey \notin DOMAIN weighted_vertices
       THEN [status |-> "unreachable", hops |-> featured, bottleneck |-> bottleneck]
       ELSE LET next_entry == weighted_vertices[pubkey]
                propagated == [featured EXCEPT
                                  ![n].route_hop.fee_msat = next_entry.hop_use_fee_msat,
                                  ![n].route_hop.cltv_expiry_delta = next_entry.route_hop.cltv_expiry_delta]
            IN WalkToPayee(Remove(weighted_vertices, pubkey), Append(propagated, next_entry),
                           next_entry, bottleneck)

\* Debit the liquidity of the channels of a path (router.rs 690-696); the
\* loop stops at the first channel that cannot pay, keeping earlier debits.
RECURSIVE DebitChannels(_, _, _)
DebitChannels(book, hops, i) ==
    IF i > Len(hops) THEN [status |-> "ok", book |-> book]
    ELSE LET scid == hops[i].route_hop.short_channel_id
             fee_paid_msat == get_fee_paid_msat(hops[i])
         IN IF scid \notin DOMAIN book THEN [status |-> "panic", book |-> book]
            ELSE IF book[scid] < fee_paid_msat THEN [status |-> "overdrawn", book |-> book]
            ELSE DebitChannels([book EXCEPT ![scid] = @ - fee_paid_msat], hops, i + 1)

SetFinalHopKeepingCltv(ordered_hops) ==
    [ordered_hops EXCEPT ![Len(ordered_hops)].route_hop.fee_msat = final_value_msat]

\* the last hop of a walked path gets the payment's value and cltv
\* (router.rs 679-680)
SetFinalHop(ordered_hops) ==
    [ordered_hops EXCEPT ![Len(ordered_hops)].route_hop.fee_msat = final_value_msat,
                         ![Len(ordered_hops)].route_hop.cltv_expiry_delta = final_cltv]

PathHasUnreachableFee(hops) ==
    \E i \in 1..Len(hops) : hops[i].hop_use_fee_msat = Unreachable

ConstructPath ==
    /\ pc = "construct"
    /\ \E i \in HeapTop(routing_state.targeted_edges), overflow_checks \in BOOLEAN :
          LET node == routing_state.targeted_edges[i]
              popped == HeapWithout(routing_state.targeted_edges, i)
              new_entry == routing_state.weighted_vertices[our_node_id]
              walk == WalkToPayee(Remove(routing_state.weighted_vertices, our_node_id),
                                  << new_entry >>, new_entry, wrapping_mul(final_value_msat, 10))
              ordered_hops == SetFinalHop(walk.hops)
              payment_path == update_value_and_recompute_fees(ordered_hops, walk.bottleneck)
              debit == DebitChannels(routing_state.bookkeeped_channels_liquidity_available_msat,
                                     payment_path, 1)
              walked == [routing_state EXCEPT !.targeted_edges = popped]
          IN /\ node.pubkey = our_node_id
             /\ UNCHANGED << package_vars, args, first_hop_targets >>
             /\ IF final_value_msat > U64_MAX \div 10 /\ overflow_checks
                THEN \* final_value_msat * 10 (router.rs 633)
                     /\ result' = MultiplyOverflow /\ pc' = "done"
                     /\ routing_state' = walked
                     /\ UNCHANGED << payment_paths, found_new_path >>
                ELSE IF walk.status = "assert"
                THEN /\ result' = Panic /\ pc' = "done"
                     /\ routing_state' = walked
                     /\ UNCHANGED << payment_paths, found_new_path >>
                ELSE IF walk.status = "unreachable"
                THEN \* break 'paths_collection
                     /\ result' = result /\ pc' = "step4"
                     /\ routing_state' = walked
                     /\ UNCHANGED << payment_paths, found_new_path >>
                ELSE IF PathHasUnreachableFee(payment_path) \/ debit.status = "panic"
                THEN /\ result' = Panic /\ pc' = "done"
                     /\ routing_state' = walked
                     /\ UNCHANGED << payment_paths, found_new_path >>
                ELSE IF debit.status = "overdrawn"
                THEN \* break 'path_construction before the path is recorded
                     /\ result' = result /\ pc' = "step3"
                     /\ routing_state' =
                            [walked EXCEPT !.bookkeeped_channels_liquidity_available_msat = debit.book]
                     /\ UNCHANGED << payment_paths, found_new_path >>
                ELSE /\ result' = result /\ pc' = "step3"
                     /\ routing_state' =
                            [walked EXCEPT
                                !.bookkeeped_channels_liquidity_available_msat = debit.book,
                                !.already_collected_value_msat = @ + get_value_msat(payment_path)]
                     /\ payment_paths' = Append(payment_paths, payment_path)
                     /\ found_new_path' = TRUE

(***************************************************************************)
(* Step 3: loop test (router.rs 726-728)                                   *)
(***************************************************************************)
StepThree ==
    /\ pc = "step3"
    /\ IF routing_state.already_collected_value_msat >= routing_state.recommended_value_msat
          \/ ~found_new_path
       THEN pc' = "step4"
       ELSE pc' = "seed"
    /\ UNCHANGED << package_vars, args, locals, result >>

(***************************************************************************)
(* Steps 4-8: combine the collected paths into a route (router.rs 731-817) *)
(***************************************************************************)
MAX_PATHS == 50

PathValues(paths) == [i \in 1..Len(paths) |-> get_value_msat(paths[i])]
PathFees(paths) == [i \in 1..Len(paths) |-> get_total_fee_paid_msat(paths[i])]
\* sum::<u32>() of the proportional fees of a path, before any overflow
ProportionalFeesSum(path) ==
    SumSeq([h \in 1..Len(path) |-> path[h].channel_fees.proportional_millionths])

\* the sort key of step 7 as a build without overflow checks computes it
PathProportionalFees(paths) ==
    [i \in 1..Len(paths) |-> ProportionalFeesSum(paths[i]) % (U32_MAX + 1)]

\* the closure given to cur_route.retain
RECURSIVE RetainPaths(_, _, _, _, _)
RetainPaths(paths, i, overpaid_value_msat, paths_left, kept) ==
    IF i > Len(paths) THEN [kept |-> kept, overpaid_value_msat |-> overpaid_value_msat]
    ELSE IF paths_left = 1
    THEN RetainPaths(paths, i + 1, overpaid_value_msat, paths_left, Append(kept, paths[i]))
    ELSE IF get_value_msat(paths[i]) <= overpaid_value_msat
    THEN RetainPaths(paths, i + 1, overpaid_value_msat - get_value_msat(paths[i]),
                     paths_left - 1, kept)
    ELSE RetainPaths(paths, i + 1, overpaid_value_msat, paths_left, Append(kept, paths[i]))

\* router.rs 762-799, run when the route reaches final_value_msat.  overflow
\* tells whether a sort key of step 7 exceeds u32: a build with overflow
\* checks panics there (a slice of one path is sorted without computing keys).
ReduceOverpayment(cur_route, overpaid) ==
    LET by_value == sort_by_key(cur_route, PathValues(cur_route))
        retained == RetainPaths(by_value, 1, overpaid, Len(by_value), << >>)
        by_fee == sort_by_key(retained.kept, PathProportionalFees(retained.kept))
        n == Len(by_fee)
        expensive_path_new_value_msat == get_value_msat(by_fee[n]) - retained.overpaid_value_msat
    IN IF retained.overpaid_value_msat = 0 THEN [route |-> retained.kept, overflow |-> FALSE]
       ELSE [route |-> [by_fee EXCEPT
                           ![n] = update_value_and_recompute_fees(@, expensive_path_new_value_msat)],
             overflow |-> /\ Len(retained.kept) >= 2
                          /\ \E i \in 1..Len(retained.kept) :
                                ProportionalFeesSum(retained.kept[i]) > U32_MAX]

RECURSIVE DrawRoute(_, _, _, _)
DrawRoute(cur_payment_paths, k, cur_route, aggregate_route_value_msat) ==
    IF k > Len(cur_payment_paths) THEN [route |-> cur_route, overflow |-> FALSE]
    ELSE LET pushed == Append(cur_route, cur_payment_paths[k])
             aggregate == aggregate_route_value_msat + get_value_msat(cur_payment_paths[k])
         IN IF aggregate >= final_value_msat
            THEN ReduceOverpayment(pushed, aggregate - final_value_msat)
            ELSE DrawRoute(cur_payment_paths, k + 1, pushed, aggregate)

\* [&payment_paths[i..], &payment_paths[..i]].concat(), i counted from 1
Rotated(paths, i) == SubSeq(paths, i, Len(paths)) \o SubSeq(paths, 1, i - 1)

BestPaths(paths) ==
    LET sorted == sort_by_key(paths, PathFees(paths))
    IN IF Len(sorted) > MAX_PATHS THEN SubSeq(sorted, 1, MAX_PATHS) ELSE sorted

DrawnRoutes(paths) == [i \in 1..Len(paths) |-> DrawRoute(Rotated(paths, i), 1, << >>, 0)]

RouteFees(routes) == [i \in 1..Len(routes) |-> SumSeq(PathFees(routes[i].route))]

SelectedPaths(paths) ==
    LET drawn_routes == DrawnRoutes(BestPaths(paths))
        best == sort_by_key(drawn_routes, RouteFees(drawn_routes))[1].route
    IN [p \in 1..Len(best) |-> [h \in 1..Len(best[p]) |-> best[p][h].route_hop]]

SortKeyOverflows(paths) ==
    LET drawn_routes == DrawnRoutes(BestPaths(paths))
    IN \E i \in 1..Len(drawn_routes) : drawn_routes[i].overflow

CombinePaths ==
    /\ pc = "step4"
    /\ pc' = "done"
    /\ IF Len(payment_paths) = 0 THEN result' = Err(ErrNoPath)
       ELSE IF routing_state.already_collected_value_msat < final_value_msat
       THEN result' = Err(ErrInsufficient)
       ELSE \/ result' = Ok(SelectedPaths(payment_paths))
            \/ SortKeyOverflows(payment_paths) /\ result' = Panic
    /\ UNCHANGED << package_vars, args, locals >>

(***************************************************************************)
(* Construction of network graphs                                          *)
(***************************************************************************)
ChannelInfo(features, node_one, node_two, one_to_two, two_to_one, capacity_sats) ==
    [features |-> features, node_one |-> node_one, node_two |-> node_two,
     one_to_two |-> one_to_two, two_to_one |-> two_to_one, capacity_sats |-> capacity_sats]

RECURSIVE SetToSeq(_)
SetToSeq(S) ==
    IF S = {} THEN << >>
    ELSE LET m == CHOOSE x \in S : \A y \in S : x <= y
         IN << m >> \o SetToSeq(S \ {m})

\* the directional infos of the channels that lead to node_id
InboundInfos(channels, node_id) ==
    {Unwrap(channels[c].one_to_two) : c \in {d \in DOMAIN channels :
            channels[d].node_two = node_id /\ channels[d].one_to_two # None}}
    \cup
    {Unwrap(channels[c].two_to_one) : c \in {d \in DOMAIN channels :
            channels[d].node_one = node_id /\ channels[d].two_to_one # None}}

SetMin(S) == CHOOSE x \in S : \A y \in S : x <= y

\* NodeInfo as the graph keeps it: the channels of the node in announcement
\* order and the lowest fees of its inbound channel updates
NodeInfo(channels, node_id, features) ==
    LET inbound == InboundInfos(channels, node_id)
    IN [channels |-> SetToSeq({c \in DOMAIN channels :
                        channels[c].node_one = node_id \/ channels[c].node_two = node_id}),
        lowest_inbound_channel_fees |->
            IF inbound = {} THEN None
            ELSE Some(RoutingFees(SetMin({d.fees.base_msat : d \in inbound}),
                                  SetMin({d.fees.proportional_millionths : d \in inbound}))),
        announcement_info |-> IF features = None THEN None ELSE Some([features |-> Unwrap(features)])]

\* a graph whose nodes are the endpoints of its channels; node_features
\* gives the announced features of the nodes that announced themselves
NetworkGraph(channels, node_features) ==
    [nodes |-> [n \in {channels[c].node_one : c \in DOMAIN channels}
                       \cup {channels[c].node_two : c \in DOMAIN channels} |->
                  NodeInfo(channels, n,
                           IF n \in DOMAIN node_features THEN Some(node_features[n]) ELSE None)],
     channels |-> channels]

ChannelDetails(scid, remote_network_id, counterparty_features) ==
    [short_channel_id |-> scid, remote_network_id |-> remote_network_id,
     counterparty_features |-> counterparty_features]

RouteHint(src_node_id, scid, fees, cltv, htlc_min, htlc_max) ==
    [src_node_id |-> src_node_id, short_channel_id |-> scid, fees |-> fees,
     cltv_expiry_delta |-> cltv, htlc_minimum_msat |-> htlc_min, htlc_maximum_msat |-> htlc_max]

(***************************************************************************)
(* The graphs get_route is run on.  Nodes: 0 is our node, 1 (A) and 2 (B)  *)
(* are forwarding nodes, 3 (P) is the usual payee; node 4 (Q) and node 7   *)
(* never have announced channels.  Channels 1 (us-A), 2 (us-B), 3 (A-P),    *)
(* 4 (P-B, P is node_one) and 5 (A-B).  Every direction has its own        *)
(* cltv_expiry_delta.                                                      *)
(***************************************************************************)
NodeUs == our_node_id
NodeA == 1
NodeB == 2
NodeP == 3
NodeQ == 4
NodeUnannounced == 7

Dir(enabled, cltv, htlc_min, liquidity, fees) ==
    Some(DirectionalChannelInfo(enabled, cltv, htlc_min, liquidity.htlc_maximum_msat, fees))

Liquidity(capacity_sats, htlc_maximum_msat) ==
    [capacity_sats |-> capacity_sats, htlc_maximum_msat |-> htlc_maximum_msat]

LiqUnknown == Liquidity(None, None)
LiqCapacity == Liquidity(Some(1), None)
LiqHtlcMax == Liquidity(None, Some(100))
LiqBoth == Liquidity(Some(1), Some(100))
LiqBothCapacityLower == Liquidity(Some(1), Some(2000))

ZeroFees == RoutingFees(0, 0)
IgnoredFees == RoutingFees(U32_MAX, U32_MAX)

\* fees of the directions A->P, B->P and A->B
FeeProfiles ==
    {[a_p |-> ZeroFees, b_p |-> ZeroFees, a_b |-> ZeroFees],
     [a_p |-> RoutingFees(10, 0), b_p |-> ZeroFees, a_b |-> RoutingFees(1, 0)],
     [a_p |-> RoutingFees(0, 20000), b_p |-> RoutingFees(5, 50000), a_b |-> ZeroFees]}

BaseKnobs ==
    [us_in_graph |-> TRUE, us_a |-> "enabled", us_b |-> TRUE, a_p |-> TRUE, b_p |-> TRUE, a_b |-> TRUE,
     a_features |-> FeaturesKnown, p_features |-> FeaturesKnown, chan4_features |-> FeaturesKnown,
     liq1 |-> LiqUnknown, liq3 |-> LiqUnknown, liq4 |-> LiqUnknown,
     fees |-> [a_p |-> ZeroFees, b_p |-> ZeroFees, a_b |-> ZeroFees], htlc_min4 |-> 0]

GraphChannels(k) ==
    LET a_inbound(d) == IF k.us_a = "absent" THEN None ELSE d
        all == (1 :> ChannelInfo(FeaturesKnown, NodeUs, NodeA,
                        a_inbound(Dir(k.us_a = "enabled", 11, 0, k.liq1, ZeroFees)),
                        Dir(TRUE, 12, 0, k.liq1, ZeroFees), k.liq1.capacity_sats))
            @@ (2 :> ChannelInfo(FeaturesKnown, NodeUs, NodeB,
                        Dir(k.us_b, 21, 0, LiqUnknown, IgnoredFees),
                        Dir(TRUE, 22, 0, LiqUnknown, ZeroFees), None))
            @@ (3 :> ChannelInfo(FeaturesEmpty, NodeA, NodeP,
                        Dir(k.a_p, 31, 0, k.liq3, k.fees.a_p),
                        a_inbound(Dir(TRUE, 32, 0, k.liq3, ZeroFees)), k.liq3.capacity_sats))
            @@ (4 :> ChannelInfo(k.chan4_features, NodeP, NodeB,
                        Dir(TRUE, 41, 0, k.liq4, ZeroFees),
                        Dir(k.b_p, 42, k.htlc_min4, k.liq4, k.fees.b_p), k.liq4.capacity_sats))
            @@ (5 :> ChannelInfo(FeaturesKnown, NodeA, NodeB,
                        Dir(k.a_b, 51, 0, Liquidity(None, Some(500)), k.fees.a_b),
                        a_inbound(Dir(TRUE, 52, 0, LiqUnknown, ZeroFees)), None))
    IN IF k.us_in_graph THEN all ELSE [c \in {3, 4, 5} |-> all[c]]

\* node B never announced itself
Graph(k) ==
    NetworkGraph(GraphChannels(k), (NodeA :> k.a_features) @@ (NodeP :> k.p_features))

FirstHopChoices ==
    {None,
     Some(<< >>),
     Some(<< ChannelDetails(42, NodeA, FeaturesKnown) >>),
     Some(<< ChannelDetails(42, NodeA, FeaturesKnown), ChannelDetails(43, NodeP, FeaturesKnown),
             ChannelDetails(44, NodeP, FeaturesEmpty) >>),
     Some(<< ChannelDetails(42, NodeB, FeaturesKnown), ChannelDetails(43, NodeQ, FeaturesKnown) >>)}

LastHopChoices ==
    {<< >>,
     << RouteHint(NodeB, 8, ZeroFees, 81, 0, None) >>,
     << RouteHint(NodeUnannounced, 9, ZeroFees, 91, 0, None),
        RouteHint(NodeUs, 8, ZeroFees, 82, 0, None) >>,
     << RouteHint(NodeP, 8, RoutingFees(5, 0), 83, 0, Some(150)),
        RouteHint(NodeA, 9, RoutingFees(20, 0), 92, 30, None) >>}

FinalCltv == 42

\* get_route with and without first and last hops, to every kind of payee
InitHops ==
    /\ \E us_in_graph \in BOOLEAN, a_features \in {FeaturesKnown, FeaturesUnknownRequired} :
          network = Graph([BaseKnobs EXCEPT !.us_in_graph = us_in_graph, !.a_features = a_features])
    /\ payee \in {NodeUs, NodeA, NodeP, NodeQ}
    /\ first_hops \in FirstHopChoices
    /\ last_hops \in LastHopChoices
    /\ final_value_msat \in {100, MAX_VALUE_MSAT + 1}
    /\ final_cltv = FinalCltv

\* disabled directions, missing updates and unknown feature bits
InitGraphs ==
    /\ \E us_a \in {"enabled", "disabled", "absent"}, us_b \in BOOLEAN, a_p \in BOOLEAN,
          b_p \in BOOLEAN, a_b \in BOOLEAN,
          a_features \in {FeaturesKnown, FeaturesUnknownRequired},
          chan4_features \in {FeaturesKnown, FeaturesUnknownRequired},
          p_features \in {FeaturesKnown, FeaturesUnknownRequired},
          liq3 \in {LiqUnknown, LiqHtlcMax} :
          network = Graph([BaseKnobs EXCEPT !.us_a = us_a, !.us_b = us_b, !.a_p = a_p, !.b_p = b_p,
                                            !.a_b = a_b, !.a_features = a_features,
                                            !.chan4_features = chan4_features,
                                            !.p_features = p_features, !.liq3 = liq3])
    /\ payee = NodeP
    /\ first_hops \in {None, Some(<< ChannelDetails(42, NodeA, FeaturesKnown) >>)}
    /\ last_hops = << >>
    /\ final_value_msat = 100
    /\ final_cltv = FinalCltv

\* liquidity limits, fees and payment values
InitLiquidity ==
    /\ \E us_b \in BOOLEAN, liq1 \in {LiqUnknown, LiqHtlcMax},
          liq3 \in {LiqUnknown, LiqCapacity, LiqHtlcMax, LiqBoth, LiqBothCapacityLower},
          liq4 \in {LiqUnknown, Liquidity(None, Some(60)), Liquidity(None, Some(180))},
          fees \in FeeProfiles, htlc_min4 \in {0, 50} :
          network = Graph([BaseKnobs EXCEPT !.us_b = us_b, !.liq1 = liq1, !.liq3 = liq3, !.liq4 = liq4,
                                            !.fees = fees, !.htlc_min4 = htlc_min4])
    /\ payee = NodeP
    /\ first_hops = None
    /\ last_hops = << >>
    /\ final_value_msat \in {0, 100, 160, 250, 1100}
    /\ final_cltv = FinalCltv

\* A payment of 500 msat over an expensive path of 1600 msat (us-A-P) and a
\* cheap path (us-A-B-P) whose channel A-B only passes 20 msat: the cheap
\* path is collected again and again, for a few msat each time.
ManySmallPathsChannels ==
    (1 :> ChannelInfo(FeaturesKnown, NodeUs, NodeA,
                Dir(TRUE, 11, 0, LiqUnknown, ZeroFees), Dir(TRUE, 12, 0, LiqUnknown, ZeroFees), None))
    @@ (3 :> ChannelInfo(FeaturesKnown, NodeA, NodeP,
                Dir(TRUE, 31, 0, Liquidity(None, Some(1600)), RoutingFees(50, 0)),
                Dir(TRUE, 32, 0, Liquidity(None, Some(1600)), ZeroFees), None))
    @@ (4 :> ChannelInfo(FeaturesKnown, NodeP, NodeB,
                Dir(TRUE, 41, 0, LiqUnknown, ZeroFees),
                Dir(TRUE, 42, 0, LiqUnknown, RoutingFees(0, 47000)), None))
    @@ (5 :> ChannelInfo(FeaturesKnown, NodeA, NodeB,
                Dir(TRUE, 51, 0, Liquidity(None, Some(20)), ZeroFees),
                Dir(TRUE, 52, 0, Liquidity(None, Some(20)), ZeroFees), None))

InitManySmallPaths ==
    /\ network = NetworkGraph(ManySmallPathsChannels,
                              (NodeA :> FeaturesKnown) @@ (NodeB :> FeaturesKnown) @@ (NodeP :> FeaturesKnown))
    /\ payee = NodeP
    /\ first_hops = None
    /\ last_hops = << >>
    /\ final_value_msat = 500
    /\ final_cltv = FinalCltv

\* A payment of every existing satoshi over the path us-A-P, whose channels
\* pass twice as much.
InitLargeValue ==
    /\ \E liq \in {Liquidity(None, Some(2 * MAX_VALUE_MSAT))} :
          network = Graph([BaseKnobs EXCEPT !.liq1 = liq, !.liq3 = liq])
    /\ payee = NodeP
    /\ first_hops = None
    /\ last_hops = << >>
    /\ final_value_msat \in {U64_MAX \div 10, MAX_VALUE_MSAT}
    /\ final_cltv = FinalCltv

(***************************************************************************)
(* Package templates (ln/onchain_utils.rs)                                 *)
(***************************************************************************)
RevokedOutput(input_descriptor, amount) ==
    [input_descriptor |-> input_descriptor, amount |-> amount]

HTLCOutputInCommitment(offered, amount_msat) ==
    [offered |-> offered, amount_msat |-> amount_msat]

RemoteHTLCOutput(preimage, htlc) == [preimage |-> preimage, htlc |-> htlc]

LocalHTLCOutput(preimage, amount) == [preimage |-> preimage, amount |-> amount]

LocalFundingOutput(funding_redeemscript) == [funding_redeemscript |-> funding_redeemscript]

MalleableJusticeTx(inputs) == [variant |-> "MalleableJusticeTx", inputs |-> inputs]
RemoteHTLCTx(inputs) == [variant |-> "RemoteHTLCTx", inputs |-> inputs]
LocalHTLCTx(outpoint, output) == [variant |-> "LocalHTLCTx", input |-> << outpoint, output >>]
LocalCommitmentTx(outpoint, output) ==
    [variant |-> "LocalCommitmentTx", input |-> << outpoint, output >>]

\* Default for PackageTemplate
DefaultPackageTemplate == MalleableJusticeTx(EmptyMap)

IsMalleable(pkg) == pkg.variant \in {"MalleableJusticeTx", "RemoteHTLCTx"}

\* the outpoints of a package; the order of the Vec is the HashMap's
outpoints(pkg) ==
    IF IsMalleable(pkg) THEN DOMAIN pkg.inputs ELSE {pkg.input[1]}

InsertDrainedKeepingBase(base_inputs, inputs) ==
    [k \in DOMAIN base_inputs \cup DOMAIN inputs |->
        IF k \in DOMAIN base_inputs THEN base_inputs[k] ELSE inputs[k]]

\* for (k, v) in inputs.drain() { base_inputs.insert(k, v); }
InsertDrained(base_inputs, inputs) ==
    [k \in DOMAIN base_inputs \cup DOMAIN inputs |->
        IF k \in DOMAIN inputs THEN inputs[k] ELSE base_inputs[k]]

package_merge_any_malleable(self, other) ==
    IF IsMalleable(self) /\ IsMalleable(other)
    THEN [panic |-> FALSE, package |-> [self EXCEPT !.inputs = InsertDrained(@, other.inputs)]]
    ELSE [panic |-> TRUE, package |-> self]

package_merge(self, other) ==
    IF IsMalleable(self) /\ other.variant = self.variant
    THEN [panic |-> FALSE, package |-> [self EXCEPT !.inputs = InsertDrained(@, other.inputs)]]
    ELSE [panic |-> TRUE, package |-> self]

\* the sum of the values of a map
RECURSIVE SumValues(_)
SumValues(amounts) ==
    IF DOMAIN amounts = {} THEN 0
    ELSE LET k == CHOOSE o \in DOMAIN amounts : TRUE
         IN amounts[k] + SumValues([o \in DOMAIN amounts \ {k} |-> amounts[o]])

RevokedAmount(outp) == outp.amount
RemoteHTLCAmount(outp) == outp.htlc.amount_msat \div 1000

package_amounts(pkg) ==
    IF pkg.variant = "MalleableJusticeTx"
    THEN SumValues([o \in DOMAIN pkg.inputs |-> RevokedAmount(pkg.inputs[o])])
    ELSE IF pkg.variant = "RemoteHTLCTx"
    THEN SumValues([o \in DOMAIN pkg.inputs |-> RemoteHTLCAmount(pkg.inputs[o])])
    ELSE 0

PackageMerge ==
    /\ package_op = "idle"
    /\ LET merged == package_merge(package, template)
       IN /\ package' = merged.package
          /\ package_op' = IF merged.panic THEN "panicked" ELSE "merged"
    /\ UNCHANGED << template, package_before, split_outp, returned, weighed >>
    /\ UNCHANGED << router_vars, codec_vars, finalize_vars, request_vars, fee_vars, path_vars, app_vars >>

\* package_split never panics: on a package that is not malleable, and on an
\* outpoint the package does not hold, it returns None
package_split(self, outpoint) ==
    IF IsMalleable(self) /\ outpoint \in DOMAIN self.inputs
    THEN [package |-> [self EXCEPT !.inputs = Remove(@, outpoint)],
          returned |-> Some([variant |-> self.variant,
                             inputs |-> outpoint :> self.inputs[outpoint]])]
    ELSE [package |-> self, returned |-> None]

\* The packages package_merge and package_split are called with: every map of up to
\* MaxOutPoints outpoints to outputs, built by the build_* functions and
\* earlier merges.
MaxOutPoints == 3
OutPoints == 1..MaxOutPoints

RevokedOutputs ==
    {RevokedOutput("RevokedOutput", 1000), RevokedOutput("RevokedOfferedHTLC", 2500)}
RemoteHTLCOutputs ==
    {RemoteHTLCOutput(None, HTLCOutputInCommitment(TRUE, 1500)),
     RemoteHTLCOutput(Some("preimage"), HTLCOutputInCommitment(FALSE, 2999))}

MapsTo(values) == UNION {[keys -> values] : keys \in SUBSET OutPoints}

PackageTemplates ==
    {MalleableJusticeTx(inputs) : inputs \in MapsTo(RevokedOutputs)}
    \cup {RemoteHTLCTx(inputs) : inputs \in MapsTo(RemoteHTLCOutputs)}
    \cup {LocalHTLCTx(o, LocalHTLCOutput(None, 3000)) : o \in OutPoints}
    \cup {LocalCommitmentTx(o, LocalFundingOutput("funding_redeemscript")) : o \in OutPoints}

PackageSplit ==
    /\ package_op = "idle"
    /\ \E outpoint \in OutPoints :
          LET splitted == package_split(package, outpoint)
          IN /\ split_outp' = outpoint
             /\ package' = splitted.package
             /\ returned' = splitted.returned
    /\ package_op' = "split"
    /\ UNCHANGED << template, package_before, weighed >>
    /\ UNCHANGED << router_vars, codec_vars, finalize_vars, request_vars, fee_vars, path_vars, app_vars >>

\* Weight of the witness of a claiming input, by InputDescriptors variant:
\* the stack item count, the length bytes and the items themselves.
descriptor_weight(inp) ==
    CASE inp = "RevokedOfferedHTLC" -> 1 + 1 + 73 + 1 + 33 + 1 + 133
      [] inp = "RevokedReceivedHTLC" -> 1 + 1 + 73 + 1 + 33 + 1 + 139
      [] inp = "OfferedHTLC" -> 1 + 1 + 73 + 1 + 32 + 1 + 133
      [] inp = "ReceivedHTLC" -> 1 + 1 + 73 + 1 + 1 + 1 + 139
      [] inp = "RevokedOutput" -> 1 + 1 + 73 + 1 + 1 + 1 + 77

\* get_witnesses_weight: the segwit flags, then every descriptor's witness.
get_witnesses_weight(inputs) ==
    2 + SumSeq([i \in 1..Len(inputs) |-> descriptor_weight(inputs[i])])

\* Transaction::get_weight of the transaction package_weight builds: inputs
\* with empty script_sig and empty witness, one output of value 0 paying to
\* destination_script (a Script is held as its length in bytes).
get_weight(input_count, destination_script) ==
    4 * (4 + 1 + input_count * (32 + 4 + 1 + 4) + 1 + (8 + 1 + destination_script) + 4)

\* The loop of package_weight over the inputs: one call of
\* get_witnesses_weight per input, on a slice holding that input's descriptor.
RECURSIVE inputs_weight(_)
inputs_weight(descriptors) ==
    IF DOMAIN descriptors = {}
    THEN 0
    ELSE LET outpoint == CHOOSE o \in DOMAIN descriptors : TRUE
             rest == [o \in DOMAIN descriptors \ {outpoint} |-> descriptors[o]]
         IN get_witnesses_weight(<< descriptors[outpoint] >>) + inputs_weight(rest)

package_weight(self, destination_script) ==
    CASE self.variant = "MalleableJusticeTx" ->
            get_weight(Cardinality(DOMAIN self.inputs), destination_script)
            + inputs_weight([o \in DOMAIN self.inputs |-> self.inputs[o].input_descriptor])
      [] self.variant = "RemoteHTLCTx" ->
            get_weight(Cardinality(DOMAIN self.inputs), destination_script)
            + inputs_weight([o \in DOMAIN self.inputs |->
                                IF self.inputs[o].preimage # None
                                THEN "OfferedHTLC"
                                ELSE "ReceivedHTLC"])
      [] OTHER -> 0

\* Lengths of the destination scripts: P2WPKH and P2WSH.
DestinationScripts == {22, 34}

PackageWeight ==
    /\ package_op = "idle"
    /\ \E destination_script \in DestinationScripts :
          weighed' = Some([weight |-> package_weight(package, destination_script),
                           destination_script |-> destination_script])
    /\ package_op' = "weighed"
    /\ UNCHANGED << package, template, package_before, split_outp, returned >>
    /\ UNCHANGED << router_vars, codec_vars, finalize_vars, request_vars, fee_vars, path_vars, app_vars >>

(***************************************************************************)
(* Serialization of package templates (Writeable / Readable)               *)
(***************************************************************************)
\* byte k of n, counted from the low end; amounts of the model stay below 2^32
Byte(n, k) == IF k >= 4 THEN 0 ELSE (n \div (256 ^ k)) % 256

\* big-endian bytes of n over width bytes
be_to_array(n, width) == [i \in 1..width |-> Byte(n, width - i)]

be64_to_array(n) == be_to_array(n, 8)

RECURSIVE slice_to_be(_)
slice_to_be(bytes) ==
    IF Len(bytes) = 0 THEN 0
    ELSE slice_to_be(SubSeq(bytes, 1, Len(bytes) - 1)) * 256 + bytes[Len(bytes)]

\* Result<T, DecodeError> of a read, with what is left in the reader
ReadOk(value, rest) == [err |-> "", value |-> value, rest |-> rest]
ReadErr(e) == [err |-> e, value |-> << >>, rest |-> << >>]
InvalidValue == "InvalidValue"
ShortRead == "ShortRead"

\* the `?` operator
AndThen(r, F(_)) == IF r.err # "" THEN ReadErr(r.err) ELSE F(r)

read_bytes(bytes, n) ==
    IF Len(bytes) < n THEN ReadErr(ShortRead)
    ELSE ReadOk(SubSeq(bytes, 1, n), SubSeq(bytes, n + 1, Len(bytes)))

read_be(bytes, width) ==
    AndThen(read_bytes(bytes, width), LAMBDA r : ReadOk(slice_to_be(r.value), r.rest))

read_u8(bytes) == read_be(bytes, 1)
read_u16(bytes) == read_be(bytes, 2)
read_u32(bytes) == read_be(bytes, 4)
read_u64(bytes) == read_be(bytes, 8)

\* Option<T>: a byte 0, or a byte 1 and the value
write_Option(o, W(_)) == IF o = None THEN << 0 >> ELSE << 1 >> \o W(Unwrap(o))

read_Option(bytes, R(_)) ==
    AndThen(read_u8(bytes), LAMBDA t :
        IF t.value = 0 THEN ReadOk(None, t.rest)
        ELSE IF t.value = 1
        THEN AndThen(R(t.rest), LAMBDA v : ReadOk(Some(v.value), v.rest))
        ELSE ReadErr(InvalidValue))

\* The keys, hashes and preimages of the outputs are the same in every output
\* of the model; they are written with their width and skipped when read.
PublicKeyBytes == [i \in 1..33 |-> 2]
SecretKeyBytes == [i \in 1..32 |-> 1]
PaymentHashBytes == [i \in 1..32 |-> 9]
PaymentPreimageBytes == [i \in 1..32 |-> 7]

read_PublicKey(bytes) == read_bytes(bytes, 33)
read_SecretKey(bytes) == read_bytes(bytes, 32)

write_PaymentPreimage(preimage) == PaymentPreimageBytes
read_PaymentPreimage(bytes) ==
    AndThen(read_bytes(bytes, 32), LAMBDA r : ReadOk("preimage", r.rest))

\* Script: a u16 length and the bytes
ScriptBytes == << 82, 174 >>
write_Script(script) == be_to_array(Len(ScriptBytes), 2) \o ScriptBytes
read_Script(bytes) ==
    AndThen(read_u16(bytes), LAMBDA len :
    AndThen(read_bytes(len.rest, len.value), LAMBDA r :
        ReadOk("funding_redeemscript", r.rest)))

\* BitcoinOutPoint { txid, vout }: outpoint o of the model has txid o, vout 0
write_BitcoinOutPoint(outpoint) == be_to_array(outpoint, 32) \o be_to_array(0, 4)
read_BitcoinOutPoint(bytes) ==
    AndThen(read_be(bytes, 32), LAMBDA txid :
    AndThen(read_u32(txid.rest), LAMBDA vout : ReadOk(txid.value, vout.rest)))

\* HTLCOutputInCommitment { offered, amount_msat, cltv_expiry, payment_hash,
\* transaction_output_index }
write_HTLCOutputInCommitment(htlc) ==
    << IF htlc.offered THEN 1 ELSE 0 >> \o be64_to_array(htlc.amount_msat)
    \o be_to_array(0, 4) \o PaymentHashBytes \o << 0 >>

read_HTLCOutputInCommitment(bytes) ==
    AndThen(read_u8(bytes), LAMBDA offered :
    AndThen(read_u64(offered.rest), LAMBDA amount_msat :
    AndThen(read_u32(amount_msat.rest), LAMBDA cltv_expiry :
    AndThen(read_bytes(cltv_expiry.rest, 32), LAMBDA payment_hash :
    AndThen(read_Option(payment_hash.rest, read_u32), LAMBDA transaction_output_index :
        IF offered.value > 1 THEN ReadErr(InvalidValue)
        ELSE ReadOk(HTLCOutputInCommitment(offered.value = 1, amount_msat.value),
                    transaction_output_index.rest))))))

InputDescriptors ==
    << "RevokedOfferedHTLC", "RevokedReceivedHTLC", "OfferedHTLC", "ReceivedHTLC", "RevokedOutput" >>

write_InputDescriptors(input_descriptor) ==
    << (CHOOSE i \in 1..Len(InputDescriptors) : InputDescriptors[i] = input_descriptor) - 1 >>

read_InputDescriptors(bytes) ==
    AndThen(read_u8(bytes), LAMBDA t :
        IF t.value < Len(InputDescriptors)
        THEN ReadOk(InputDescriptors[t.value + 1], t.rest)
        ELSE ReadErr(InvalidValue))

\* RevokedOutput: the keys, htlc (None) and on_remote_tx_csv (0) are not
\* distinguished by the model
write_RevokedOutput(revk) ==
    PublicKeyBytes \o PublicKeyBytes \o PublicKeyBytes \o SecretKeyBytes
    \o write_InputDescriptors(revk.input_descriptor)
    \o be64_to_array(revk.amount)
    \o write_Option(None, write_HTLCOutputInCommitment)
    \o be_to_array(0, 2)

read_RevokedOutput(bytes) ==
    AndThen(read_PublicKey(bytes), LAMBDA per_commitment_point :
    AndThen(read_PublicKey(per_commitment_point.rest), LAMBDA remote_delayed_payment_base_key :
    AndThen(read_PublicKey(remote_delayed_payment_base_key.rest), LAMBDA remote_htlc_base_key :
    AndThen(read_SecretKey(remote_htlc_base_key.rest), LAMBDA per_commitment_key :
    AndThen(read_InputDescriptors(per_commitment_key.rest), LAMBDA input_descriptor :
    AndThen(read_u64(input_descriptor.rest), LAMBDA amount :
    AndThen(read_Option(amount.rest, read_HTLCOutputInCommitment), LAMBDA htlc :
    AndThen(read_u16(htlc.rest), LAMBDA on_remote_tx_csv :
        ReadOk(RevokedOutput(input_descriptor.value, amount.value),
               on_remote_tx_csv.rest)))))))))

write_RemoteHTLCOutput(rem) ==
    PublicKeyBytes \o PublicKeyBytes \o PublicKeyBytes
    \o write_Option(rem.preimage, write_PaymentPreimage)
    \o write_HTLCOutputInCommitment(rem.htlc)

read_RemoteHTLCOutput(bytes) ==
    AndThen(read_PublicKey(bytes), LAMBDA per_commitment_point :
    AndThen(read_PublicKey(per_commitment_point.rest), LAMBDA remote_delayed_payment_base_key :
    AndThen(read_PublicKey(remote_delayed_payment_base_key.rest), LAMBDA remote_htlc_base_key :
    AndThen(read_Option(remote_htlc_base_key.rest, read_PaymentPreimage), LAMBDA preimage :
    AndThen(read_HTLCOutputInCommitment(preimage.rest), LAMBDA htlc :
        ReadOk(RemoteHTLCOutput(preimage.value, htlc.value), htlc.rest))))))

write_LocalHTLCOutput(htlc_outp) ==
    write_Option(htlc_outp.preimage, write_PaymentPreimage) \o be64_to_array(htlc_outp.amount)

read_LocalHTLCOutput_amount_first(bytes) ==
    AndThen(read_u64(bytes), LAMBDA amount :
    AndThen(read_Option(amount.rest, read_PaymentPreimage), LAMBDA preimage :
        ReadOk(LocalHTLCOutput(preimage.value, amount.value), preimage.rest)))

read_LocalHTLCOutput(bytes) ==
    AndThen(read_Option(bytes, read_PaymentPreimage), LAMBDA preimage :
    AndThen(read_u64(preimage.rest), LAMBDA amount :
        ReadOk(LocalHTLCOutput(preimage.value, amount.value), amount.rest)))

write_LocalFundingOutput(funding_outp) == write_Script(funding_outp.funding_redeemscript)

read_LocalFundingOutput(bytes) ==
    AndThen(read_Script(bytes), LAMBDA funding_redeemscript :
        ReadOk(LocalFundingOutput(funding_redeemscript.value), funding_redeemscript.rest))

\* the entries of a malleable package, in the order the HashMap iterates
RECURSIVE write_inputs(_, _, _)
write_inputs(variant, inputs, order) ==
    IF Len(order) = 0 THEN << >>
    ELSE write_BitcoinOutPoint(Head(order))
         \o (IF variant = "MalleableJusticeTx"
             THEN write_RevokedOutput(inputs[Head(order)])
             ELSE write_RemoteHTLCOutput(inputs[Head(order)]))
         \o write_inputs(variant, inputs, Tail(order))

write_PackageTemplate(pkg, order) ==
    CASE pkg.variant = "MalleableJusticeTx" ->
            << 0 >> \o be64_to_array(Cardinality(DOMAIN pkg.inputs))
            \o write_inputs(pkg.variant, pkg.inputs, order)
      [] pkg.variant = "RemoteHTLCTx" ->
            << 1 >> \o be64_to_array(Cardinality(DOMAIN pkg.inputs))
            \o write_inputs(pkg.variant, pkg.inputs, order)
      [] pkg.variant = "LocalHTLCTx" ->
            << 2 >> \o write_BitcoinOutPoint(pkg.input[1]) \o write_LocalHTLCOutput(pkg.input[2])
      [] pkg.variant = "LocalCommitmentTx" ->
            << 3 >> \o write_BitcoinOutPoint(pkg.input[1]) \o write_LocalFundingOutput(pkg.input[2])

\* for _ in 0..inputs_count { inputs.insert(outpoint, output) }
RECURSIVE read_inputs(_, _, _, _)
read_inputs(variant, bytes, inputs_count, inputs) ==
    IF inputs_count = 0 THEN ReadOk(inputs, bytes)
    ELSE AndThen(read_BitcoinOutPoint(bytes), LAMBDA outpoint :
         AndThen(IF variant = "MalleableJusticeTx"
                 THEN read_RevokedOutput(outpoint.rest)
                 ELSE read_RemoteHTLCOutput(outpoint.rest), LAMBDA output :
             read_inputs(variant, output.rest, inputs_count - 1,
                         Put(inputs, outpoint.value, output.value))))

read_PackageTemplate(bytes) ==
    AndThen(read_u8(bytes), LAMBDA t :
        CASE t.value = 0 ->
                AndThen(read_u64(t.rest), LAMBDA inputs_count :
                AndThen(read_inputs("MalleableJusticeTx", inputs_count.rest,
                                    inputs_count.value, EmptyMap), LAMBDA inputs :
                    ReadOk(MalleableJusticeTx(inputs.value), inputs.rest)))
          [] t.value = 1 ->
                AndThen(read_u64(t.rest), LAMBDA inputs_count :
                AndThen(read_inputs("RemoteHTLCTx", inputs_count.rest,
                                    inputs_count.value, EmptyMap), LAMBDA inputs :
                    ReadOk(RemoteHTLCTx(inputs.value), inputs.rest)))
          [] t.value = 2 ->
                AndThen(read_BitcoinOutPoint(t.rest), LAMBDA outpoint :
                AndThen(read_LocalHTLCOutput(outpoint.rest), LAMBDA htlc_outp :
                    ReadOk(LocalHTLCTx(outpoint.value, htlc_outp.value), htlc_outp.rest)))
          [] t.value = 3 ->
                AndThen(read_BitcoinOutPoint(t.rest), LAMBDA outpoint :
                AndThen(read_LocalFundingOutput(outpoint.rest), LAMBDA funding_outp :
                    ReadOk(LocalCommitmentTx(outpoint.value, funding_outp.value),
                           funding_outp.rest)))
          [] OTHER -> ReadErr(InvalidValue))

\* the orders in which a HashMap may iterate over its keys
Orders(keys) ==
    {order \in [1..Cardinality(keys) -> keys] :
        \A i, j \in 1..Cardinality(keys) : i # j => order[i] # order[j]}

NotRead == [err |-> "not read", value |-> << >>, rest |-> << >>]

PackageWrite ==
    /\ package_op = "idle"
    /\ \E order \in Orders(outpoints(package)) :
          written' = write_PackageTemplate(package, order)
    /\ package_op' = "written"
    /\ UNCHANGED << package, template, package_before, split_outp, returned, weighed, decoded >>
    /\ UNCHANGED << router_vars, finalize_vars, request_vars, fee_vars, path_vars, app_vars >>

PackageRead ==
    /\ package_op \in {"written", "received"}
    /\ decoded' = read_PackageTemplate(written)
    /\ package_op' = IF package_op = "written" THEN "read back" ELSE "read"
    /\ UNCHANGED << package, template, package_before, split_outp, returned, weighed, written >>
    /\ UNCHANGED << router_vars, finalize_vars, request_vars, fee_vars, path_vars, app_vars >>

\* Bytes that no write produced: unknown variant tags in front of nothing and
\* of the body of a serialized package, an empty input, and an entry count
\* without its entries.
UnknownTags == {4, 5, 255}

ReceivedBytes ==
    {<< t >> \o body : t \in UnknownTags,
                       body \in {<< >>,
                                 Tail(write_PackageTemplate(
                                     LocalHTLCTx(1, LocalHTLCOutput(None, 3000)), << 1 >>))}}
    \cup {<< >>, << 0 >> \o be64_to_array(1)}

(***************************************************************************)
(* Onchain requests (ln/onchain_utils.rs)                                  *)
(***************************************************************************)
OnchainRequest(aggregation, bump_strategy, feerate, height_timer, absolute_timelock, height_original, content) ==
    [aggregation |-> aggregation, bump_strategy |-> bump_strategy,
     feerate_previous |-> feerate, height_timer |-> height_timer,
     absolute_timelock |-> absolute_timelock, height_original |-> height_original,
     content |-> content]

\* Default for OnchainRequest
DefaultOnchainRequest ==
    OnchainRequest(TRUE, "RBF", 0, None, U32_MAX, 0, DefaultPackageTemplate)

InitMergeWholesale(self, other) == other

\* We init default onchain request with first merge content
InitMerge(self, other) ==
    [self EXCEPT !.height_original = other.height_original,
                 !.content = other.content,
                 !.absolute_timelock = other.absolute_timelock]

request_merge_any_height(self, other) ==
    IF self.absolute_timelock = U32_MAX
    THEN [panic |-> FALSE, request |-> InitMerge(self, other)]
    ELSE LET lowered == [self EXCEPT !.absolute_timelock = Min(@, other.absolute_timelock)]
             content == package_merge(self.content, other.content)
         IN [panic |-> content.panic,
             request |-> [lowered EXCEPT !.content = content.package]]

\* assert_eq! panics before anything is changed; a panic of package_merge
\* comes after the timelock was lowered
request_merge(self, other) ==
    IF self.absolute_timelock = U32_MAX
    THEN [panic |-> FALSE, request |-> InitMerge(self, other)]
    ELSE IF self.height_original # other.height_original
    THEN [panic |-> TRUE, request |-> self]
    ELSE LET lowered == [self EXCEPT !.absolute_timelock =
                                        IF @ > other.absolute_timelock
                                        THEN other.absolute_timelock ELSE @]
             content == package_merge(self.content, other.content)
         IN [panic |-> content.panic,
             request |-> [lowered EXCEPT !.content = content.package]]

\* The requests of the model: two blocks, two timelocks and the value of an
\* uninitialized request, three packages, and two settings of the fields a
\* merge does not look at.
Timelocks == {100, 200, U32_MAX}
Heights == {10, 11}
Contents ==
    {MalleableJusticeTx(1 :> RevokedOutput("RevokedOutput", 1000)),
     MalleableJusticeTx(2 :> RevokedOutput("RevokedOfferedHTLC", 2500)),
     RemoteHTLCTx(1 :> RemoteHTLCOutput(None, HTLCOutputInCommitment(TRUE, 1500)))}

OnchainRequests ==
    {OnchainRequest(TRUE, "RBF", 0, None, t, h, c) : t \in Timelocks, h \in Heights, c \in Contents}
    \cup {OnchainRequest(FALSE, "CPFP", 253, Some(12), t, h, c) :
            t \in Timelocks, h \in Heights, c \in Contents}

\* the requests a first merge is made into
UninitializedRequests ==
    {DefaultOnchainRequest,
     OnchainRequest(FALSE, "CPFP", 253, Some(12), U32_MAX, 0, DefaultPackageTemplate),
     OnchainRequest(FALSE, "RBF", 1000, None, U32_MAX, 10,
                    MalleableJusticeTx(3 :> RevokedOutput("RevokedOutput", 1000)))}

MaxMerges == 2

RequestMerge ==
    /\ request_op \in {"idle", "merged"}
    /\ Len(merged_requests) < MaxMerges
    /\ \E other \in OnchainRequests :
          LET merged == request_merge(request, other)
          IN /\ req' = other
             /\ request' = merged.request
             /\ request_op' = IF merged.panic THEN "panicked" ELSE "merged"
             /\ merged_requests' = IF merged.panic THEN merged_requests
                                   ELSE Append(merged_requests, other)
    /\ request_before' = request
    /\ UNCHANGED << router_vars, template_vars, codec_vars, finalize_vars, fee_vars, path_vars, app_vars >>

RequestIdle ==
    /\ request = DefaultOnchainRequest
    /\ req = DefaultOnchainRequest
    /\ request_before = DefaultOnchainRequest
    /\ request_op = "idle"
    /\ merged_requests = << >>

(***************************************************************************)
(* Finalization of a package into a transaction (ln/onchain_utils.rs)      *)
(***************************************************************************)
\* What the key storage and the derivation of the keys answer: the outpoints
\* for which TxCreationKeys::new fails, those for which the signature of the
\* input fails, and whether get_fully_signed_htlc_tx and
\* get_fully_signed_local_tx give a transaction.
Signer(derive_fails, sign_fails, htlc_tx_signed, local_tx_signed) ==
    [derive_fails |-> derive_fails, sign_fails |-> sign_fails,
     htlc_tx_signed |-> htlc_tx_signed, local_tx_signed |-> local_tx_signed]

\* what a call gives back: it returned an Option, or it panicked
Returns(value) == [panic |-> FALSE, returned |-> value]
Panics == [panic |-> TRUE, returned |-> None]

TxIn(previous_output, witness) ==
    [previous_output |-> previous_output, script_sig |-> "", sequence |-> "0xfffffffd",
     witness |-> witness]

Transaction(lock_time, input, output) ==
    [version |-> 2, lock_time |-> lock_time, input |-> input, output |-> output]

TxOut(script_pubkey, value) == [script_pubkey |-> script_pubkey, value |-> value]

\* htlc.cltv_expiry, the same for every HTLC of the model
CltvExpiry == 500

\* the witness of input outpoint of a justice transaction
JusticeWitness(outpoint, onchain_handler) ==
    IF outpoint \in onchain_handler.derive_fails THEN << >>
    ELSE << "sig SIGHASH_ALL", "revocation_key or 1", "witness_script" >>

\* the witness of input outpoint of a remote HTLC transaction: it stays empty
\* when the keys cannot be derived and when the signer fails
RemoteHTLCWitness(rem, outpoint, onchain_handler) ==
    IF outpoint \in onchain_handler.derive_fails \/ outpoint \in onchain_handler.sign_fails
    THEN << >>
    ELSE << "sig SIGHASH_ALL", IF Len(rem.preimage) = 1 THEN "preimage" ELSE "", "witness_script" >>

\* order is the order in which the HashMap iterates over the inputs
package_finalize(self, order, onchain_handler, value, destination_script) ==
    LET output == << TxOut(destination_script, value) >>
    IN CASE self.variant = "MalleableJusticeTx" ->
              IF \E i \in 1..Len(order) : /\ order[i] \notin onchain_handler.derive_fails
                                          /\ order[i] \in onchain_handler.sign_fails
              THEN Returns(None)
              ELSE Returns(Some(Transaction(0,
                      [i \in 1..Len(order) |->
                          TxIn(order[i], JusticeWitness(order[i], onchain_handler))],
                      output)))
         [] self.variant = "RemoteHTLCTx" ->
              Returns(Some(Transaction(
                  IF \E i \in 1..Len(order) : /\ order[i] \notin onchain_handler.derive_fails
                                              /\ Len(self.inputs[order[i]].preimage) = 0
                  THEN CltvExpiry ELSE 0,
                  [i \in 1..Len(order) |->
                      TxIn(order[i], RemoteHTLCWitness(self.inputs[order[i]], order[i],
                                                       onchain_handler))],
                  output)))
         [] self.variant = "LocalHTLCTx" ->
              IF onchain_handler.htlc_tx_signed
              THEN Returns(Some(Transaction(0,
                      << TxIn(self.input[1], << "fully signed htlc tx" >>) >>, output)))
              ELSE Returns(None)
         [] self.variant = "LocalCommitmentTx" ->
              IF onchain_handler.local_tx_signed
              THEN Returns(Some(Transaction(0,
                      << TxIn(self.input[1], << "fully signed local tx" >>) >>, output)))
              ELSE Panics

(***************************************************************************)
(* Fee computation for claims (ln/onchain_utils.rs)                        *)
(***************************************************************************)
\* chain::chaininterface::MIN_RELAY_FEE_SAT_PER_1000_WEIGHT
MIN_RELAY_FEE_SAT_PER_1000_WEIGHT == 4000

FeeEstimator(high_priority, normal, background) ==
    [HighPriority |-> high_priority, Normal |-> normal, Background |-> background]

get_est_sat_per_1000_weight(fee_estimator, confirmation_target) ==
    fee_estimator[confirmation_target]

subtract_high_prio_fee_or_equal(input_amounts, predicted_weight, fee_estimator) ==
    LET high == get_est_sat_per_1000_weight(fee_estimator, "HighPriority")
        normal == get_est_sat_per_1000_weight(fee_estimator, "Normal")
        background == get_est_sat_per_1000_weight(fee_estimator, "Background")
    IN IF input_amounts < (high * predicted_weight) \div 1000
       THEN IF input_amounts < (normal * predicted_weight) \div 1000
            THEN IF input_amounts < (background * predicted_weight) \div 1000
                 THEN None
                 ELSE Some(<< (background * predicted_weight) \div 1000, background >>)
            ELSE Some(<< (normal * predicted_weight) \div 1000, normal >>)
       ELSE Some(<< (high * predicted_weight) \div 1000, high >>)

\* Option<(fee, feerate)>
subtract_high_prio_fee(input_amounts, predicted_weight, fee_estimator) ==
    LET high == get_est_sat_per_1000_weight(fee_estimator, "HighPriority")
        normal == get_est_sat_per_1000_weight(fee_estimator, "Normal")
        background == get_est_sat_per_1000_weight(fee_estimator, "Background")
    IN IF input_amounts <= (high * predicted_weight) \div 1000
       THEN IF input_amounts <= (normal * predicted_weight) \div 1000
            THEN IF input_amounts <= (background * predicted_weight) \div 1000
                 THEN None
                 ELSE Some(<< (background * predicted_weight) \div 1000, background >>)
            ELSE Some(<< (normal * predicted_weight) \div 1000, normal >>)
       ELSE Some(<< (high * predicted_weight) \div 1000, high >>)

\* the fee feerate_bump starts from, before BIP 125 is looked at
bump_candidate(predicted_weight, input_amounts, previous_feerate, fee_estimator) ==
    IF previous_feerate < get_est_sat_per_1000_weight(fee_estimator, "HighPriority")
    THEN LET estimated == subtract_high_prio_fee(input_amounts, predicted_weight, fee_estimator)
         IN IF Len(estimated) = 1 THEN Some(Unwrap(estimated)[1]) ELSE None
    ELSE LET fee == (previous_feerate * predicted_weight) \div 750
         IN IF input_amounts <= fee THEN None ELSE Some(fee)

feerate_bump_without_floor(predicted_weight, input_amounts, previous_feerate, fee_estimator) ==
    LET candidate == bump_candidate(predicted_weight, input_amounts, previous_feerate, fee_estimator)
    IN IF Len(candidate) = 0 THEN Returns(None)
       ELSE IF predicted_weight = 0 THEN Panics
       ELSE Returns(Some(<< Unwrap(candidate), (Unwrap(candidate) * 1000) \div predicted_weight >>))

\* the division by predicted_weight panics when it is 0
feerate_bump(predicted_weight, input_amounts, previous_feerate, fee_estimator) ==
    LET candidate == bump_candidate(predicted_weight, input_amounts, previous_feerate, fee_estimator)
        previous_fee == (previous_feerate * predicted_weight) \div 1000
        min_relay_fee == (MIN_RELAY_FEE_SAT_PER_1000_WEIGHT * predicted_weight) \div 1000
    IN IF Len(candidate) = 0 THEN Returns(None)
       ELSE LET new_fee == IF Unwrap(candidate) < previous_fee + min_relay_fee
                           THEN Unwrap(candidate) + previous_fee + min_relay_fee - Unwrap(candidate)
                           ELSE Unwrap(candidate)
            IN IF predicted_weight = 0 THEN Panics
               ELSE Returns(Some(<< new_fee, (new_fee * 1000) \div predicted_weight >>))

\* Option<(output value, feerate)>
compute_output_value_with_old_feerate(predicted_weight, input_amounts, previous_feerate, fee_estimator) ==
    LET first == subtract_high_prio_fee(input_amounts, predicted_weight, fee_estimator)
        bumped == feerate_bump(predicted_weight, input_amounts, previous_feerate, fee_estimator)
    IN IF previous_feerate = 0
       THEN IF Len(first) = 0 THEN Returns(None)
            ELSE Returns(Some(<< input_amounts - Unwrap(first)[1], Unwrap(first)[2] >>))
       ELSE IF bumped.panic THEN Panics
       ELSE IF Len(bumped.returned) = 0 THEN Returns(None)
       ELSE IF Unwrap(bumped.returned)[1] > input_amounts
       THEN Returns(Some(<< 0, previous_feerate >>))
       ELSE Returns(Some(<< input_amounts - Unwrap(bumped.returned)[1], previous_feerate >>))

compute_output_value(predicted_weight, input_amounts, previous_feerate, fee_estimator) ==
    IF previous_feerate # 0
    THEN LET bumped == feerate_bump(predicted_weight, input_amounts, previous_feerate, fee_estimator)
         IN IF bumped.panic THEN Panics
            ELSE IF Len(bumped.returned) = 0 THEN Returns(None)
            ELSE LET new_fee == Unwrap(bumped.returned)[1]
                     feerate == Unwrap(bumped.returned)[2]
                 IN IF new_fee > input_amounts
                    THEN Returns(Some(<< 0, feerate >>))
                    ELSE Returns(Some(<< input_amounts - new_fee, feerate >>))
    ELSE LET estimated == subtract_high_prio_fee(input_amounts, predicted_weight, fee_estimator)
         IN IF Len(estimated) = 0 THEN Returns(None)
            ELSE Returns(Some(<< input_amounts - Unwrap(estimated)[1], Unwrap(estimated)[2] >>))

ComputeOutputValue ==
    /\ fee_op = "idle"
    /\ LET value == compute_output_value(claim_weight, claim_amounts, feerate_previous, estimator)
       IN /\ computed' = value.returned
          /\ fee_op' = IF value.panic THEN "panicked" ELSE "computed"
    /\ UNCHANGED << claim_weight, claim_amounts, feerate_previous, estimator, fee_attempts >>
    /\ UNCHANGED << router_vars, template_vars, codec_vars, finalize_vars, request_vars, path_vars, app_vars >>

MaxBumps == 3

\* The feerate a claim was computed with is kept in the request's
\* feerate_previous (onchain_utils.rs 705-706) for its next bump attempt.
StoreFeerate ==
    /\ fee_op = "computed"
    /\ computed # None
    /\ fee_attempts < MaxBumps
    /\ feerate_previous' = Unwrap(computed)[2]
    /\ fee_attempts' = fee_attempts + 1
    /\ computed' = None
    /\ fee_op' = "idle"
    /\ UNCHANGED << claim_weight, claim_amounts, estimator >>
    /\ UNCHANGED << router_vars, template_vars, codec_vars, finalize_vars, request_vars, path_vars, app_vars >>

\* The calls of the model: the weights of no input, of a tiny and of two
\* usual transactions, claims from nothing to 1_000_000 sat, a first attempt
\* and four earlier feerates, and estimators answering in falling order, all
\* the same, and in rising order.
Weights == {0, 1, 600, 1000}
InputAmounts == {0, 1, 3000, 5000, 9000, 1000000}
PreviousFeerates == {0, 1, 253, 5000, 20000}
FeeEstimators ==
    {FeeEstimator(5000, 2000, 253), FeeEstimator(20000, 5000, 1000),
     FeeEstimator(10000, 10000, 10000), FeeEstimator(253, 2000, 5000)}

FeeIdle ==
    /\ claim_weight = 0
    /\ claim_amounts = 0
    /\ feerate_previous = 0
    /\ estimator = FeeEstimator(0, 0, 0)
    /\ computed = None
    /\ fee_op = "idle"
    /\ fee_attempts = 0

FinalizeIdle ==
    /\ signer = Signer({}, {}, TRUE, TRUE)
    /\ finalized = None

PackageFinalize ==
    /\ package_op = "idle"
    /\ \E order \in Orders(outpoints(package)) :
          LET tx == package_finalize(package, order, signer, package_amounts(package),
                                     "destination_script")
          IN /\ finalized' = tx.returned
             /\ package_op' = IF tx.panic THEN "panicked" ELSE "finalized"
    /\ UNCHANGED << package, template, package_before, split_outp, returned, weighed, signer >>
    /\ UNCHANGED << router_vars, codec_vars, request_vars, fee_vars, path_vars, app_vars >>

\* the answers of the signer for the inputs of a package
Signers(pkg) ==
    IF IsMalleable(pkg)
    THEN {Signer(derive_fails, sign_fails, TRUE, TRUE) :
            derive_fails \in SUBSET outpoints(pkg), sign_fails \in SUBSET outpoints(pkg)}
    ELSE {Signer({}, {}, htlc_tx_signed, local_tx_signed) :
            htlc_tx_signed \in BOOLEAN, local_tx_signed \in BOOLEAN}

(***************************************************************************)
(* Calls of update_value_and_recompute_fees and of compute_fees on their   *)
(* own (router.rs 216-262)                                                 *)
(***************************************************************************)
PaymentHop(route_hop, available_liquidity_msat, src_lowest_inbound_fees, channel_fees, following_hops_fees_msat, hop_use_fee_msat, prev_hop_use_estimate_fee_msat) ==
    [route_hop |-> route_hop, available_liquidity_msat |-> available_liquidity_msat,
     src_lowest_inbound_fees |-> src_lowest_inbound_fees, channel_fees |-> channel_fees,
     following_hops_fees_msat |-> following_hops_fees_msat,
     hop_use_fee_msat |-> hop_use_fee_msat,
     prev_hop_use_estimate_fee_msat |-> prev_hop_use_estimate_fee_msat]

UpdateValueAndRecomputeFees ==
    /\ path_op = "idle"
    /\ recompute_hops # << >>
    /\ LET updated == update_value_and_recompute_fees(recompute_hops, recompute_value)
       IN IF PathHasUnreachableFee(updated)
          THEN path_op' = "panicked" /\ recomputed_hops' = recompute_hops
          ELSE path_op' = "updated" /\ recomputed_hops' = updated
    /\ UNCHANGED << recompute_hops, recompute_value, fee_amount, fee_params, fee_computed >>
    /\ UNCHANGED << router_vars, template_vars, codec_vars, finalize_vars, request_vars, fee_vars, app_vars >>

\* the fees of the channels of the model: none, a base fee, proportional
\* fees, and the highest fees a channel can announce
ChannelFees == {ZeroFees, RoutingFees(10, 0), RoutingFees(5, 50000), RoutingFees(U32_MAX, U32_MAX)}

\* amounts from nothing to the largest u64
Amounts == {0, 1, 19, 20, 1000, 50000, U64_MAX \div U32_MAX, (U64_MAX \div U32_MAX) + 1, U64_MAX - 1, U64_MAX}

ComputeFees ==
    /\ path_op = "idle"
    /\ \E amount_msat \in Amounts, channel_fees \in ChannelFees :
          LET new_fee == compute_fees(amount_msat, channel_fees)
          IN /\ fee_amount' = amount_msat
             /\ fee_params' = channel_fees
             /\ IF new_fee = Unreachable
                THEN path_op' = "fees panicked" /\ fee_computed' = None
                ELSE path_op' = "fees computed" /\ fee_computed' = Some(new_fee)
    /\ UNCHANGED << recompute_hops, recompute_value, recomputed_hops >>
    /\ UNCHANGED << router_vars, template_vars, codec_vars, finalize_vars, request_vars, fee_vars, app_vars >>

MaxHops == 3

\* what the fee fields of a path hold before the call
StaleFees == {0, 7}

\* the paths the path search can hand over: hop i leads to node i over
\* channel i, the fee fields of every hop hold an earlier value
PaymentPaths ==
    UNION {{[i \in 1..n |->
                PaymentHop(RouteHop(i, FeaturesKnown, i, FeaturesKnown, stale, 40 + i),
                           10000, ZeroFees, fees[i], stale, stale, 0)] :
            fees \in [1..n -> ChannelFees], stale \in StaleFees} : n \in 1..MaxHops}

PathValuesToSet == {0, 1, 1000, 50000}

PathIdle ==
    /\ recompute_hops = << >>
    /\ recompute_value = 0
    /\ recomputed_hops = << >>
    /\ path_op = "idle"
    /\ fee_amount = 0
    /\ fee_params = ZeroFees
    /\ fee_computed = None

(***************************************************************************)
(* CustomMsgHandler (ln/app.rs)                                            *)
(***************************************************************************)
\* The size of a BroadcastBitcoinHeader message and the factor of the drain
\* of to_validation: 818 and 80 in the source, scaled.
HEADERS_PER_MSG == 2
DRAIN_FACTOR == 2

\* Vec::drain(0..end): panics when end is beyond the length and then removes
\* nothing; else takes the first end elements out
drain(vec, end) ==
    IF end > Len(vec)
    THEN [panic |-> TRUE, drained |-> << >>, vec |-> vec]
    ELSE [panic |-> FALSE, drained |-> SubSeq(vec, 1, end), vec |-> SubSeq(vec, end + 1, Len(vec))]

\* CustomMsgHandler::new
AppIdle ==
    /\ to_validation = << >>
    /\ to_network = << >>
    /\ startup_complete = 0
    /\ interface_stream = None
    /\ poisoned = {}
    /\ process_pc = "start"
    /\ pending_headers = << >>
    /\ valid_headers = << >>
    /\ network_before = << >>
    /\ msg_events = << >>
    /\ app_op = "idle"

\* A panic unwinds the thread of process_pending_events and poisons the mutex
\* it holds; the handler lives on for the other threads.
ProcessPanics(kind, mutex) ==
    /\ poisoned' = poisoned \cup {mutex}
    /\ process_pc' = "start"
    /\ pending_headers' = << >>
    /\ valid_headers' = << >>
    /\ app_op' = kind

\* process_pending_events up to the lock of to_validation: the connection of
\* the interface at startup, else the drain of to_validation
ProcessStart ==
    /\ process_pc = "start"
    /\ IF startup_complete = 0
       THEN \E connected \in BOOLEAN :
               /\ interface_stream' = IF connected /\ "interface_stream" \notin poisoned
                                      THEN Some("stream") ELSE interface_stream
               /\ startup_complete' = IF connected THEN 1 ELSE 0
               /\ process_pc' = "append"
               /\ UNCHANGED << to_validation, poisoned, pending_headers, valid_headers, app_op >>
       ELSE IF "to_validation" \in poisoned
       THEN /\ process_pc' = "stream"
            /\ UNCHANGED << to_validation, startup_complete, interface_stream, poisoned,
                            pending_headers, valid_headers, app_op >>
       ELSE LET drained == drain(to_validation, HEADERS_PER_MSG * DRAIN_FACTOR)
            IN IF drained.panic
               THEN /\ ProcessPanics("drain panicked", "to_validation")
                    /\ UNCHANGED << to_validation, startup_complete, interface_stream >>
               ELSE /\ to_validation' = drained.vec
                    /\ pending_headers' = pending_headers \o drained.drained
                    /\ process_pc' = "stream"
                    /\ UNCHANGED << startup_complete, interface_stream, poisoned, valid_headers, app_op >>
    /\ UNCHANGED << to_network, network_before, msg_events >>
    /\ UNCHANGED << router_vars, template_vars, codec_vars, finalize_vars, request_vars, fee_vars, path_vars >>

\* the exchange with the validation interface: the count it announces is
\* read, the headers are then read from a buffer of length 0, and the
\* pending headers are written
ProcessStream ==
    /\ process_pc = "stream"
    /\ IF "interface_stream" \in poisoned \/ interface_stream = None
       THEN /\ process_pc' = "append"
            /\ UNCHANGED << poisoned, pending_headers, valid_headers, app_op >>
       ELSE \E read_ok \in BOOLEAN, announced \in {0, 1}, write_ok \in BOOLEAN :
               LET len == IF read_ok THEN announced ELSE 0
               IN IF len > 0
                  THEN ProcessPanics("read panicked", "interface_stream")
                  ELSE IF ~write_ok
                  THEN ProcessPanics("write panicked", "interface_stream")
                  ELSE /\ process_pc' = "append"
                       /\ pending_headers' = << >>
                       /\ UNCHANGED << poisoned, valid_headers, app_op >>
    /\ UNCHANGED << to_validation, to_network, startup_complete, interface_stream, network_before, msg_events >>
    /\ UNCHANGED << router_vars, template_vars, codec_vars, finalize_vars, request_vars, fee_vars, path_vars >>

ProcessAppend ==
    /\ process_pc = "append"
    /\ to_network' = IF "to_network" \in poisoned THEN to_network ELSE to_network \o valid_headers
    /\ valid_headers' = << >>
    /\ pending_headers' = << >>
    /\ process_pc' = "start"
    /\ app_op' = "processed"
    /\ UNCHANGED << to_validation, startup_complete, interface_stream, poisoned, network_before, msg_events >>
    /\ UNCHANGED << router_vars, template_vars, codec_vars, finalize_vars, request_vars, fee_vars, path_vars >>

\* the block headers of the model and the header lists of a BitcoinHeader
BlockHeaders == {"header a", "header b"}
HeaderLists == UNION {[1..n -> BlockHeaders] : n \in 0..HEADERS_PER_MSG}

MaxQueued == 5

HandleHeader ==
    /\ \E msg \in HeaderLists :
          /\ Len(to_validation) + Len(msg) <= MaxQueued
          /\ to_validation' = IF "to_validation" \in poisoned THEN to_validation
                              ELSE to_validation \o msg
    /\ app_op' = "handled"
    /\ UNCHANGED << to_network, startup_complete, interface_stream, poisoned, process_pc,
                    pending_headers, valid_headers, network_before, msg_events >>
    /\ UNCHANGED << router_vars, template_vars, codec_vars, finalize_vars, request_vars, fee_vars, path_vars >>

\* the loop of get_and_clear_pending_msg_events
RECURSIVE get_and_clear_pending_msg_events(_, _)
get_and_clear_pending_msg_events(headers, events) ==
    LET set_size == Len(headers)
        fetched_elems == IF set_size < HEADERS_PER_MSG THEN set_size ELSE HEADERS_PER_MSG
        to_network_subset == drain(headers, fetched_elems)
    IN IF set_size = 0
       THEN [to_network |-> headers, msg_events |-> events]
       ELSE get_and_clear_pending_msg_events(to_network_subset.vec,
                                             Append(events, to_network_subset.drained))

GetAndClearPendingMsgEvents ==
    /\ LET cleared == get_and_clear_pending_msg_events(to_network, << >>)
       IN IF "to_network" \in poisoned
          THEN /\ msg_events' = << >>
               /\ to_network' = to_network
          ELSE /\ msg_events' = cleared.msg_events
               /\ to_network' = cleared.to_network
    /\ network_before' = to_network
    /\ app_op' = "cleared"
    /\ UNCHANGED << to_validation, startup_complete, interface_stream, poisoned, process_pc,
                    pending_headers, valid_headers >>
    /\ UNCHANGED << router_vars, template_vars, codec_vars, finalize_vars, request_vars, fee_vars, path_vars >>

PackageIdle ==
    /\ package = DefaultPackageTemplate
    /\ template = DefaultPackageTemplate
    /\ package_before = DefaultPackageTemplate
    /\ package_op = "idle"
    /\ split_outp = 1
    /\ returned = None
    /\ weighed = None
    /\ written = << >>
    /\ decoded = NotRead

vars == << network, payee, first_hops, last_hops, final_value_msat, final_cltv, pc,
           routing_state, first_hop_targets, payment_paths, found_new_path, result,
           package_vars >>

InitLocals ==
    /\ pc = "start"
    /\ routing_state = RoutingStateNew(our_node_id, 0)
    /\ first_hop_targets = EmptyMap
    /\ payment_paths = << >>
    /\ found_new_path = FALSE
    /\ result = NoResult

Init ==
    /\ InitHops \/ InitGraphs \/ InitLiquidity \/ InitManySmallPaths \/ InitLargeValue
    /\ InitLocals
    /\ PackageIdle
    /\ FinalizeIdle
    /\ RequestIdle
    /\ FeeIdle
    /\ PathIdle
    /\ AppIdle

Next ==
    \/ Entry
    \/ SeedTargets
    \/ ExpandNode
    \/ ConstructPath
    \/ HeapExhausted
    \/ StepThree
    \/ CombinePaths

Spec == Init /\ [][Next]_vars

\* get_route is not running
RouterIdle ==
    /\ network = Graph(BaseKnobs)
    /\ payee = NodeP
    /\ first_hops = None
    /\ last_hops = << >>
    /\ final_value_msat = 0
    /\ final_cltv = FinalCltv
    /\ pc = "idle"
    /\ routing_state = RoutingStateNew(our_node_id, 0)
    /\ first_hop_targets = EmptyMap
    /\ payment_paths = << >>
    /\ found_new_path = FALSE
    /\ result = NoResult

InitPackages ==
    /\ package \in PackageTemplates
    /\ template \in PackageTemplates
    /\ package_before = package
    /\ package_op = "idle"
    /\ split_outp = 1
    /\ returned = None
    /\ weighed = None
    /\ written = << >>
    /\ decoded = NotRead
    /\ RouterIdle
    /\ FinalizeIdle
    /\ RequestIdle
    /\ FeeIdle
    /\ PathIdle
    /\ AppIdle

NextPackages ==
    \/ PackageMerge
    \/ PackageSplit
    \/ PackageWeight

SpecPackages == InitPackages /\ [][NextPackages]_vars

\* Writing a package and reading it back, and reading received bytes
InitCodec ==
    /\ \/ /\ package \in PackageTemplates
          /\ package_op = "idle"
          /\ written = << >>
       \/ /\ package = DefaultPackageTemplate
          /\ package_op = "received"
          /\ written \in ReceivedBytes
    /\ template = DefaultPackageTemplate
    /\ package_before = package
    /\ split_outp = 1
    /\ returned = None
    /\ weighed = None
    /\ decoded = NotRead
    /\ RouterIdle
    /\ FinalizeIdle
    /\ RequestIdle
    /\ FeeIdle
    /\ PathIdle
    /\ AppIdle

NextCodec ==
    \/ PackageWrite
    \/ PackageRead

SpecCodec == InitCodec /\ [][NextCodec]_vars

\* Finalizing a package with a signer that may fail
InitFinalize ==
    /\ package \in PackageTemplates
    /\ template = DefaultPackageTemplate
    /\ package_before = package
    /\ package_op = "idle"
    /\ split_outp = 1
    /\ returned = None
    /\ weighed = None
    /\ written = << >>
    /\ decoded = NotRead
    /\ signer \in Signers(package)
    /\ finalized = None
    /\ RouterIdle
    /\ RequestIdle
    /\ FeeIdle
    /\ PathIdle
    /\ AppIdle

NextFinalize == PackageFinalize

SpecFinalize == InitFinalize /\ [][NextFinalize]_vars

\* Merging requests into a request that starts uninitialized
InitRequests ==
    /\ request \in UninitializedRequests
    /\ req = DefaultOnchainRequest
    /\ request_before = request
    /\ request_op = "idle"
    /\ merged_requests = << >>
    /\ RouterIdle
    /\ PackageIdle
    /\ FinalizeIdle
    /\ FeeIdle
    /\ PathIdle
    /\ AppIdle

NextRequests == RequestMerge

SpecRequests == InitRequests /\ [][NextRequests]_vars

\* Calls of compute_output_value
InitFees ==
    /\ claim_weight \in Weights
    /\ claim_amounts \in InputAmounts
    /\ feerate_previous \in PreviousFeerates
    /\ estimator \in FeeEstimators
    /\ computed = None
    /\ fee_op = "idle"
    /\ fee_attempts = 0
    /\ RouterIdle
    /\ PackageIdle
    /\ FinalizeIdle
    /\ RequestIdle
    /\ PathIdle
    /\ AppIdle

NextFees == ComputeOutputValue \/ StoreFeerate

SpecFees == InitFees /\ [][NextFees]_vars

\* Calls of update_value_and_recompute_fees and of compute_fees
InitPaths ==
    /\ recompute_hops \in PaymentPaths
    /\ recompute_value \in PathValuesToSet
    /\ recomputed_hops = << >>
    /\ path_op = "idle"
    /\ fee_amount = 0
    /\ fee_params = ZeroFees
    /\ fee_computed = None
    /\ RouterIdle
    /\ PackageIdle
    /\ FinalizeIdle
    /\ RequestIdle
    /\ FeeIdle
    /\ AppIdle

NextPaths == UpdateValueAndRecomputeFees \/ ComputeFees

SpecPaths == InitPaths /\ [][NextPaths]_vars

\* The handler under any interleaving of its three entry points
InitApp ==
    /\ AppIdle
    /\ RouterIdle
    /\ PackageIdle
    /\ FinalizeIdle
    /\ RequestIdle
    /\ FeeIdle
    /\ PathIdle

NextApp ==
    \/ ProcessStart
    \/ ProcessStream
    \/ ProcessAppend
    \/ HandleHeader
    \/ GetAndClearPendingMsgEvents

SpecApp == InitApp /\ [][NextApp]_vars

(***************************************************************************)
(* Properties of get_route                                                 *)
(***************************************************************************)
Returned == pc = "done"
ReturnedRoute == pc = "done" /\ result.kind = "ok"
ReturnedError(msg) == pc = "done" /\ result = Err(msg)

LastHop(path) == path[Len(path)]

\* what the paths of the returned route deliver to the payee
DeliveredValue == SumSeq([p \in 1..Len(result.paths) |-> LastHop(result.paths[p]).fee_msat])

\* C1: in every route get_route returns, the fee_msat of the last hops of
\* the paths add up to final_value_msat exactly.
RouteDeliversFinalValue ==
    ReturnedRoute => DeliveredValue = final_value_msat

\* the directional info of graph channel scid from node src
DirectionFrom(scid, src) ==
    IF network.channels[scid].node_one = src
    THEN network.channels[scid].one_to_two ELSE network.channels[scid].two_to_one

IsGraphChannel(scid) == scid \in DOMAIN network.channels

\* the last hops src -> payee over channel scid
HintsOf(scid, src) ==
    {i \in 1..Len(last_hops) :
        last_hops[i].short_channel_id = scid /\ last_hops[i].src_node_id = src}

\* the cltv_expiry_delta src announced for channel scid
ChannelCltvs(scid, src) ==
    IF IsGraphChannel(scid)
    THEN {Unwrap(DirectionFrom(scid, src)).cltv_expiry_delta}
    ELSE {last_hops[i].cltv_expiry_delta : i \in HintsOf(scid, src)}

\* C2: every returned path is non-empty and ends at the payee with
\* cltv_expiry_delta = final_cltv, and every other hop carries the
\* cltv_expiry_delta of the channel the next hop uses.
PathsEndAtPayeeWithCltvs ==
    ReturnedRoute =>
        \A p \in 1..Len(result.paths) :
            LET path == result.paths[p]
            IN /\ Len(path) >= 1
               /\ LastHop(path).pubkey = payee
               /\ LastHop(path).cltv_expiry_delta = final_cltv
               /\ \A h \in 1..(Len(path) - 1) :
                     path[h].cltv_expiry_delta
                        \in ChannelCltvs(path[h + 1].short_channel_id, path[h].pubkey)

\* a returned path of three hops whose last hop is a last-hop hint
ThreeHopPathReturned ==
    /\ ReturnedRoute
    /\ \E p \in 1..Len(result.paths) :
          /\ Len(result.paths[p]) >= 3
          /\ ~IsGraphChannel(LastHop(result.paths[p]).short_channel_id)

\* C3: get_route returns an error, never a route, when the payee is our own
\* node or final_value_msat exceeds MAX_VALUE_MSAT.
InvalidArgumentsRefused ==
    Returned /\ (payee = our_node_id \/ final_value_msat > MAX_VALUE_MSAT)
        => /\ result.kind = "err"
           /\ result.err = IF payee = our_node_id THEN ErrToOurselves ELSE ErrTooMuchValue

FirstHopsReach(node_id) ==
    first_hops # None /\ \E i \in 1..Len(Unwrap(first_hops)) :
                            Unwrap(first_hops)[i].remote_network_id = node_id

\* too much value is refused although a first hop ends at the payee
TooMuchValueRefused ==
    /\ ReturnedError(ErrTooMuchValue)
    /\ payee # our_node_id
    /\ FirstHopsReach(payee)

\* the node a hop of a returned path starts from
HopSource(path, h) == IF h = 1 THEN our_node_id ELSE path[h - 1].pubkey

\* the hops of the returned paths that use channels of the network graph
GraphHops ==
    {ph \in UNION {{<< p, h >> : h \in 1..Len(result.paths[p])} : p \in 1..Len(result.paths)} :
        IsGraphChannel(result.paths[ph[1]][ph[2]].short_channel_id)}

HopOf(ph) == result.paths[ph[1]][ph[2]]
SourceOf(ph) == HopSource(result.paths[ph[1]], ph[2])

\* both directions of every channel of the graph
ChannelDirections ==
    UNION {{[scid |-> c, src |-> network.channels[c].node_one, dest |-> network.channels[c].node_two,
             info |-> network.channels[c].one_to_two],
            [scid |-> c, src |-> network.channels[c].node_two, dest |-> network.channels[c].node_one,
             info |-> network.channels[c].two_to_one]} : c \in DOMAIN network.channels}

IsDisabled(directional_info) ==
    directional_info # None /\ ~Unwrap(directional_info).enabled

\* the nodes reached from seen over edges (pairs of source and destination)
RECURSIVE Reach(_, _)
Reach(seen, edges) ==
    LET more == seen \cup {e[2] : e \in {f \in edges : f[1] \in seen}}
    IN IF more = seen THEN seen ELSE Reach(more, edges)

AllEdges == {<< d.src, d.dest >> : d \in ChannelDirections}
NotDisabledEdges == {<< d.src, d.dest >> : d \in {e \in ChannelDirections : ~IsDisabled(e.info)}}

ValidArguments == payee # our_node_id /\ final_value_msat <= MAX_VALUE_MSAT

\* C4: no returned path crosses a channel of the graph in a direction whose
\* update is disabled, and when every path from our node to the payee
\* contains a disabled direction (no first hops, no last hops) get_route
\* fails to find a path.
DisabledDirectionsNotUsed ==
    /\ ReturnedRoute =>
          \A ph \in GraphHops :
              /\ {network.channels[HopOf(ph).short_channel_id].node_one,
                  network.channels[HopOf(ph).short_channel_id].node_two}
                     = {SourceOf(ph), HopOf(ph).pubkey}
              /\ ~IsDisabled(DirectionFrom(HopOf(ph).short_channel_id, SourceOf(ph)))
    /\ Returned /\ ValidArguments /\ first_hops = None /\ last_hops = << >>
       /\ payee \notin Reach({our_node_id}, NotDisabledEdges)
          => result = Err(ErrNoPath)

\* the payee is connected to us, but only over disabled directions
AllPathsDisabled ==
    /\ ReturnedError(ErrNoPath)
    /\ first_hops = None /\ last_hops = << >>
    /\ payee \in Reach({our_node_id}, AllEdges)
    /\ payee \notin Reach({our_node_id}, NotDisabledEdges)

\* get_route went through the collection loop: the arguments are accepted
\* and the first hops neither are empty nor end at the payee
CollectionLoopEntered ==
    ValidArguments /\ ~FirstHopsReach(payee) /\ first_hops # Some(<< >>)

\* the directions of the graph the search may use
UsableDirections ==
    {d \in ChannelDirections :
        /\ d.info # None /\ Unwrap(d.info).enabled
        /\ ~requires_unknown_bits(network.channels[d.scid].features)
        /\ \A n \in {d.src, d.dest} :
              network.nodes[n].announcement_info # None
                 => ~requires_unknown_bits(Unwrap(network.nodes[n].announcement_info).features)}

\* the loop-free sequences of usable directions from node to the payee that
\* avoid the nodes in visited
RECURSIVE PathsFrom(_, _)
PathsFrom(node, visited) ==
    IF node = payee THEN {<< >>}
    ELSE UNION {{<< d >> \o rest : rest \in PathsFrom(d.dest, visited \cup {d.dest})} :
                    d \in {e \in UsableDirections : e.src = node /\ e.dest \notin visited}}

SimplePaths == PathsFrom(our_node_id, {our_node_id})

DirectionLiquidity(d) ==
    initial_liquidity_available_msat(network.channels[d.scid].capacity_sats,
                                     Unwrap(d.info).htlc_maximum_msat)

PathLiquidity(path) ==
    CHOOSE l \in {DirectionLiquidity(path[h]) : h \in 1..Len(path)} :
        \A h \in 1..Len(path) : l <= DirectionLiquidity(path[h])

RECURSIVE SumOver(_, _)
SumOver(set, f) ==
    IF set = {} THEN 0
    ELSE LET x == CHOOSE y \in set : TRUE IN f[x] + SumOver(set \ {x}, f)

\* the liquidity of all paths together, every path counted in full even
\* where paths share a channel
AggregateLiquidity == SumOver(SimplePaths, [path \in SimplePaths |-> PathLiquidity(path)])

PathIsFree(path) ==
    \A h \in 1..Len(path) : Unwrap(path[h].info).fees = ZeroFees /\ Unwrap(path[h].info).htlc_minimum_msat = 0

\* C5: get_route fails with "Failed to find a path" exactly when no path was
\* collected and with "Failed to find a sufficient route" exactly when paths
\* were collected but for less than final_value_msat; a request above the
\* aggregate liquidity of the paths to the payee is refused as insufficient,
\* and a request for the liquidity of a single free path gets one path
\* carrying that amount.
ErrorsTellWhatWasCollected ==
    /\ Returned /\ CollectionLoopEntered /\ result.kind # "panic"
          => /\ result = Err(ErrNoPath) <=> Len(payment_paths) = 0
             /\ result = Err(ErrInsufficient)
                   <=> /\ Len(payment_paths) > 0
                       /\ routing_state.already_collected_value_msat < final_value_msat
    /\ Returned /\ ValidArguments /\ first_hops = None /\ last_hops = << >>
       /\ our_node_id \in DOMAIN network.nodes /\ payee \in DOMAIN network.nodes
       /\ result.kind # "panic"
          => /\ SimplePaths # {} /\ final_value_msat > AggregateLiquidity
                   => result = Err(ErrInsufficient)
             /\ (\E path \in SimplePaths : SimplePaths = {path} /\ PathIsFree(path)
                                           /\ final_value_msat = PathLiquidity(path))
                   => /\ result.kind = "ok"
                      /\ Len(result.paths) = 1
                      /\ LastHop(result.paths[1]).fee_msat = final_value_msat

\* the channels of first_hops that end at node_id
FirstHopsTo(node_id) ==
    {i \in 1..Len(Unwrap(first_hops)) : Unwrap(first_hops)[i].remote_network_id = node_id}

\* C6: with first_hops, every returned path starts with a channel of
\* first_hops and no graph channel of our node is used; if a channel of
\* first_hops ends at the payee, get_route returns at once one path of one
\* hop over such a channel, with fee_msat = final_value_msat and
\* cltv_expiry_delta = final_cltv.
FirstHopsOverruleGraph ==
    /\ ReturnedRoute /\ first_hops # None =>
          /\ \A p \in 1..Len(result.paths) :
                \E i \in FirstHopsTo(result.paths[p][1].pubkey) :
                    Unwrap(first_hops)[i].short_channel_id = result.paths[p][1].short_channel_id
          /\ \A ph \in GraphHops :
                our_node_id \notin {network.channels[HopOf(ph).short_channel_id].node_one,
                                    network.channels[HopOf(ph).short_channel_id].node_two}
    /\ Returned /\ ValidArguments /\ FirstHopsReach(payee) =>
          /\ result.kind = "ok"
          /\ Len(result.paths) = 1 /\ Len(result.paths[1]) = 1
          /\ result.paths[1][1].pubkey = payee
          /\ \E i \in FirstHopsTo(payee) :
                Unwrap(first_hops)[i].short_channel_id = result.paths[1][1].short_channel_id
          /\ result.paths[1][1].fee_msat = final_value_msat
          /\ result.paths[1][1].cltv_expiry_delta = final_cltv
          /\ payment_paths = << >>
          /\ routing_state.bookkeeped_channels_liquidity_available_msat = EmptyMap

\* a searched route leaves over a first hop although the graph has an
\* enabled channel from our node
RouteStartsWithFirstHop ==
    /\ ReturnedRoute /\ first_hops # None /\ ~FirstHopsReach(payee)
    /\ \E d \in UsableDirections : d.src = our_node_id
    /\ \E p \in 1..Len(result.paths) : Len(result.paths[p]) >= 2

\* the last hops get_route has to take, and those it has to ignore
UsableHints ==
    {i \in 1..Len(last_hops) :
        /\ last_hops[i].src_node_id \in DOMAIN network.nodes
        /\ first_hops = None \/ last_hops[i].src_node_id # our_node_id}
IgnoredHints == (1..Len(last_hops)) \ UsableHints

\* the hops of the returned paths over the channel of last hop i
HopsOverHint(i) ==
    {ph \in UNION {{<< p, h >> : h \in 1..Len(result.paths[p])} : p \in 1..Len(result.paths)} :
        HopOf(ph).short_channel_id = last_hops[i].short_channel_id}

Searching == pc \in {"construct", "step3", "step4"} \/ (pc = "done" /\ CollectionLoopEntered)

\* C7: every last hop whose source is a node of the graph is offered to the
\* search as an edge from its source to the payee with its own channel id,
\* fees, cltv delta and htlc limits, whether or not the payee is in the
\* graph; a last hop whose source is not in the graph, or is our node while
\* first_hops are given, is ignored.
LastHopsAreFinalEdges ==
    /\ Searching /\ ~routing_state.panicked =>
          \A i \in UsableHints :
              /\ last_hops[i].short_channel_id
                    \in DOMAIN routing_state.bookkeeped_channels_liquidity_available_msat
              /\ routing_state.bookkeeped_channels_liquidity_available_msat[last_hops[i].short_channel_id]
                    <= initial_liquidity_available_msat(None, last_hops[i].htlc_maximum_msat)
    /\ \A i \in IgnoredHints :
          last_hops[i].short_channel_id
             \notin DOMAIN routing_state.bookkeeped_channels_liquidity_available_msat
    /\ ReturnedRoute /\ CollectionLoopEntered =>
          /\ \A i \in IgnoredHints : HopsOverHint(i) = {}
          /\ \A i \in UsableHints : \A ph \in HopsOverHint(i) :
                LET path == result.paths[ph[1]]
                    h == ph[2]
                IN /\ h = Len(path)
                   /\ path[h].pubkey = payee
                   /\ SourceOf(ph) = last_hops[i].src_node_id
                   /\ path[h].fee_msat >= last_hops[i].htlc_minimum_msat
                   /\ path[h].fee_msat
                         <= initial_liquidity_available_msat(None, last_hops[i].htlc_maximum_msat)
                   /\ h > 1 => /\ path[h - 1].fee_msat = compute_fees(path[h].fee_msat, last_hops[i].fees)
                               /\ path[h - 1].cltv_expiry_delta = last_hops[i].cltv_expiry_delta

\* a payee that is not in the graph is paid over a last hop while the last
\* hop from a node the graph does not know is ignored
AbsentPayeePaidOverLastHop ==
    /\ ReturnedRoute
    /\ payee \notin DOMAIN network.nodes
    /\ \E i \in IgnoredHints : last_hops[i].src_node_id \notin DOMAIN network.nodes
    /\ \E i \in UsableHints : HopsOverHint(i) # {}

\* the node announces features that require unknown bits
AnnouncesUnknownBits(node_id) ==
    /\ node_id \in DOMAIN network.nodes
    /\ network.nodes[node_id].announcement_info # None
    /\ requires_unknown_bits(Unwrap(network.nodes[node_id].announcement_info).features)

HintEdges == {<< last_hops[i].src_node_id, payee >> : i \in 1..Len(last_hops)}

\* the edges that neither leave nor enter a forwarding node with unknown bits
EdgesAvoidingUnknownNodes ==
    {e \in AllEdges \cup HintEdges :
        /\ e[1] # our_node_id => ~AnnouncesUnknownBits(e[1])
        /\ e[2] # payee => ~AnnouncesUnknownBits(e[2])}

UnknownNodesBlockEveryPath ==
    Returned /\ ValidArguments /\ first_hops = None
    /\ payee \notin Reach({our_node_id}, EdgesAvoidingUnknownNodes)
        => result = Err(ErrNoPath)

\* C8 as stated: no returned path uses a graph channel whose features
\* require unknown bits or one of whose two endpoints announces features
\* requiring unknown bits, and when every path passes through such a node
\* and there are no first hops get_route fails to find a path.
UnknownFeaturesNeverOnPath ==
    /\ ReturnedRoute =>
          \A ph \in GraphHops :
              /\ ~requires_unknown_bits(network.channels[HopOf(ph).short_channel_id].features)
              /\ ~AnnouncesUnknownBits(SourceOf(ph))
              /\ ~AnnouncesUnknownBits(HopOf(ph).pubkey)
    /\ UnknownNodesBlockEveryPath

\* the hop of a returned path is its first hop and uses a channel of first_hops
IsSuppliedFirstHop(path, h) ==
    /\ h = 1
    /\ first_hops # None
    /\ \E i \in FirstHopsTo(path[1].pubkey) :
          Unwrap(first_hops)[i].short_channel_id = path[1].short_channel_id

\* C8, amended: no returned path uses a graph channel whose features require
\* unknown bits or whose destination announces features requiring unknown
\* bits; the source of a hop over a graph channel announces such features
\* only if it is our node or the hop before is a first hop from first_hops.
\* When every path passes through such a node and there are no first hops
\* get_route fails to find a path.
UnknownFeaturesOnlyBehindFirstHops ==
    /\ ReturnedRoute =>
          \A ph \in GraphHops :
              /\ ~requires_unknown_bits(network.channels[HopOf(ph).short_channel_id].features)
              /\ ~AnnouncesUnknownBits(HopOf(ph).pubkey)
              /\ AnnouncesUnknownBits(SourceOf(ph)) /\ SourceOf(ph) # our_node_id
                    => IsSuppliedFirstHop(result.paths[ph[1]], ph[2] - 1)
    /\ UnknownNodesBlockEveryPath

\* a route forwards over a graph channel from a node with unknown bits that
\* a first hop leads to
UnknownNodeBehindFirstHop ==
    /\ ReturnedRoute
    /\ \E ph \in GraphHops : AnnouncesUnknownBits(SourceOf(ph))

Bookkept == routing_state.bookkeeped_channels_liquidity_available_msat

\* the liquidity a channel starts with: the lower of capacity and
\* htlc_maximum_msat, the one that is known, or 10,000,000 msat
StartingLiquidity(capacity_sats, htlc_maximum_msat) ==
    IF capacity_sats # None /\ htlc_maximum_msat # None
    THEN IF Unwrap(capacity_sats) * 1000 < Unwrap(htlc_maximum_msat)
         THEN Unwrap(capacity_sats) * 1000 ELSE Unwrap(htlc_maximum_msat)
    ELSE IF capacity_sats # None THEN Unwrap(capacity_sats) * 1000
    ELSE IF htlc_maximum_msat # None THEN Unwrap(htlc_maximum_msat)
    ELSE 10000000

\* what channel scid can start with, by the direction or last hop it is
\* first considered for; a channel of first_hops has no known limits
StartingLiquidities(scid) ==
    {StartingLiquidity(network.channels[d.scid].capacity_sats, Unwrap(d.info).htlc_maximum_msat) :
        d \in {e \in ChannelDirections : e.scid = scid /\ e.info # None}}
    \cup {StartingLiquidity(None, last_hops[i].htlc_maximum_msat) :
            i \in {j \in 1..Len(last_hops) : last_hops[j].short_channel_id = scid}}
    \cup {StartingLiquidity(None, None) :
            n \in {m \in DOMAIN first_hop_targets : first_hop_targets[m].short_channel_id = scid}}

\* C9: in one get_route call the liquidity of a channel is set once, when
\* the channel is first considered, to the starting liquidity that capacity
\* and htlc_maximum_msat give; afterwards it is only read and debited, never
\* derived again.
LiquidityDerivedOnce ==
    [][pc # "start" =>
          \A scid \in DOMAIN Bookkept' :
              IF scid \in DOMAIN Bookkept
              THEN /\ Bookkept'[scid] <= Bookkept[scid]
                   /\ Bookkept'[scid] # Bookkept[scid] => pc = "construct" /\ pc' = "step3"
              ELSE Bookkept'[scid] \in StartingLiquidities(scid)]_vars

\* a debited channel has been considered again, with what the debit left
DebitedChannelReconsidered ==
    /\ pc = "construct"
    /\ \E n \in DOMAIN routing_state.weighted_vertices :
          LET entry == routing_state.weighted_vertices[n]
          IN /\ entry.route_hop.short_channel_id \in DOMAIN Bookkept
             /\ entry.available_liquidity_msat = Bookkept[entry.route_hop.short_channel_id]
             /\ entry.available_liquidity_msat > 0
             /\ \A l \in StartingLiquidities(entry.route_hop.short_channel_id) :
                   entry.available_liquidity_msat < l

(***************************************************************************)
(* Properties of package templates                                         *)
(***************************************************************************)
Merged == package_op = "merged"

SharedOutPoints == outpoints(package_before) \cap outpoints(template)

AmountOf(pkg, outpoint) ==
    IF pkg.variant = "MalleableJusticeTx" THEN RevokedAmount(pkg.inputs[outpoint])
    ELSE RemoteHTLCAmount(pkg.inputs[outpoint])

\* C10 as stated: after P.package_merge(Q) on two packages of the same
\* malleable variant, P's outpoints are the union of both packages'
\* outpoints and P.package_amounts() is the sum of both packages' amounts,
\* also when they share an outpoint.
MergeAddsOutpointsAndAmounts ==
    Merged =>
        /\ outpoints(package) = outpoints(package_before) \cup outpoints(template)
        /\ package_amounts(package) = package_amounts(package_before) + package_amounts(template)

\* C10, amended: P's outpoints are the union of both packages' outpoints,
\* and P.package_amounts() is the sum of both packages' amounts less the
\* amounts P had at the outpoints the two share, whose outputs are replaced
\* by Q's; it is the sum of both when they share no outpoint.
MergeCountsSharedOutpointsOnce ==
    Merged =>
        /\ outpoints(package) = outpoints(package_before) \cup outpoints(template)
        /\ package_amounts(package)
              = package_amounts(package_before) + package_amounts(template)
                - SumOver(SharedOutPoints, [o \in SharedOutPoints |-> AmountOf(package_before, o)])
        /\ \A o \in SharedOutPoints : package.inputs[o] = template.inputs[o]
        /\ SharedOutPoints = {}
              => package_amounts(package)
                    = package_amounts(package_before) + package_amounts(template)

\* two packages that share an outpoint, with different outputs, and have
\* outpoints of their own have been merged
MergedOverSharedOutpoint ==
    /\ Merged
    /\ \E o \in SharedOutPoints : package_before.inputs[o] # template.inputs[o]
    /\ outpoints(package_before) \ outpoints(template) # {}
    /\ outpoints(template) \ outpoints(package_before) # {}

(***************************************************************************)
(* Properties of package_split and of the refusals of package_merge        *)
(***************************************************************************)
Splitted == package_op = "split"

MergePanicked == package_op = "panicked"

\* C11: package_split(outp) on a malleable package holding outp removes
\* exactly that outpoint, leaves every other entry as it was, and returns a
\* package of the same variant holding exactly that one entry; on a
\* LocalHTLCTx or LocalCommitmentTx package it does not return normally.
SplitRemovesOneOrHalts ==
    Splitted =>
        IF IsMalleable(package_before)
        THEN split_outp \in outpoints(package_before) =>
                /\ package.variant = package_before.variant
                /\ outpoints(package) = outpoints(package_before) \ {split_outp}
                /\ \A o \in outpoints(package) : package.inputs[o] = package_before.inputs[o]
                /\ Len(returned) = 1
                /\ Unwrap(returned).variant = package_before.variant
                /\ DOMAIN Unwrap(returned).inputs = {split_outp}
                /\ Unwrap(returned).inputs[split_outp] = package_before.inputs[split_outp]
        ELSE FALSE

\* C12: package_merge panics and leaves self as it was whenever self is a
\* LocalHTLCTx or LocalCommitmentTx package, or self and the other template
\* are malleable packages of different variants.
MergeRefusesLocalAndMismatched ==
    (/\ package_op \in {"merged", "panicked"}
     /\ \/ ~IsMalleable(package_before)
        \/ /\ IsMalleable(package_before) /\ IsMalleable(template)
           /\ package_before.variant # template.variant)
    => /\ MergePanicked
       /\ package = package_before

\* a justice package with inputs was asked to take in a remote HTLC package
\* with inputs
MismatchedMergePanicked ==
    /\ MergePanicked
    /\ package_before.variant = "MalleableJusticeTx"
    /\ template.variant = "RemoteHTLCTx"
    /\ outpoints(package_before) # {}
    /\ outpoints(template) \ outpoints(package_before) # {}

(***************************************************************************)
(* Properties of the serialization of package templates                    *)
(***************************************************************************)
ReadBack == package_op = "read back"

RequestMergeCalled == request_op \in {"merged", "panicked"}

RequestMerged == request_op = "merged"

WasUninitialized == request_before.absolute_timelock = U32_MAX

\* C14: request_merge(other) on a request whose absolute_timelock is
\* u32::MAX returns normally, whatever the two height_original and package
\* variants are; it sets height_original, content and absolute_timelock to
\* those of other and leaves aggregation, bump_strategy, feerate_previous
\* and height_timer as they were.
UninitializedMergeCopiesThreeFields ==
    (RequestMergeCalled /\ WasUninitialized) =>
        /\ RequestMerged
        /\ request.height_original = req.height_original
        /\ request.content = req.content
        /\ request.absolute_timelock = req.absolute_timelock
        /\ request.aggregation = request_before.aggregation
        /\ request.bump_strategy = request_before.bump_strategy
        /\ request.feerate_previous = request_before.feerate_previous
        /\ request.height_timer = request_before.height_timer

\* an uninitialized request that differs from other in every field, and
\* holds a package of its own, took other in
UninitializedRequestFilled ==
    /\ RequestMerged
    /\ WasUninitialized
    /\ request_before.height_original # req.height_original
    /\ request_before.aggregation # req.aggregation
    /\ request_before.bump_strategy # req.bump_strategy
    /\ request_before.feerate_previous # req.feerate_previous
    /\ request_before.height_timer # req.height_timer
    /\ request_before.absolute_timelock # req.absolute_timelock
    /\ outpoints(request_before.content) # {}
    /\ request_before.content.variant # req.content.variant

RECURSIVE LowestTimelock(_)
LowestTimelock(requests) ==
    IF Len(requests) = 1 THEN requests[1].absolute_timelock
    ELSE Min(requests[1].absolute_timelock, LowestTimelock(Tail(requests)))

\* C15: request_merge(other) on an initialized request panics unless both
\* height_original are equal, and then leaves the content as it was; when
\* they are equal and the merge returns, absolute_timelock is the lower of
\* the two and content is the package_merge of both contents.  After any
\* sequence of merges that returned, started from an uninitialized request,
\* absolute_timelock is the lowest absolute_timelock of the merged requests.
InitializedMergeNeedsSameHeight ==
    /\ (RequestMergeCalled /\ ~WasUninitialized) =>
          /\ request_before.height_original # req.height_original =>
                /\ request_op = "panicked"
                /\ request = request_before
          /\ RequestMerged =>
                /\ request_before.height_original = req.height_original
                /\ request.height_original = request_before.height_original
                /\ request.absolute_timelock
                     = Min(request_before.absolute_timelock, req.absolute_timelock)
                /\ request.content = package_merge(request_before.content, req.content).package
                /\ outpoints(request.content)
                     = outpoints(request_before.content) \cup outpoints(req.content)
    /\ (RequestMerged /\ Len(merged_requests) >= 1) =>
          request.absolute_timelock = LowestTimelock(merged_requests)

\* two requests of the same block were merged into the default request, the
\* second with the lower timelock
SecondMergeLoweredTimelock ==
    /\ RequestMerged
    /\ Len(merged_requests) = 2
    /\ ~WasUninitialized
    /\ req.absolute_timelock < request_before.absolute_timelock
    /\ request.absolute_timelock = req.absolute_timelock
    /\ outpoints(request.content) = {1, 2}

(***************************************************************************)
(* Properties of compute_output_value                                      *)
(***************************************************************************)
Computed == fee_op = "computed"

ConfirmationTargets == << "HighPriority", "Normal", "Background" >>

\* feerate * predicted_weight / 1000 for the feerate of a target
TargetFee(confirmation_target) == (estimator[confirmation_target] * claim_weight) \div 1000

\* the positions in ConfirmationTargets of the targets whose fee the claim
\* can pay
Affordable == {i \in 1..Len(ConfirmationTargets) : TargetFee(ConfirmationTargets[i]) < claim_amounts}

\* C16: on a first attempt compute_output_value takes the first of
\* HighPriority, Normal, Background whose fee is strictly less than
\* input_amounts and returns (input_amounts - fee, that feerate); it returns
\* None exactly when no target is affordable, so the output value is
\* strictly positive and at most input_amounts.
FirstAttemptTakesFirstAffordableTarget ==
    (Computed /\ feerate_previous = 0) =>
        IF Affordable = {}
        THEN computed = None
        ELSE LET taken == ConfirmationTargets[SetMin(Affordable)]
             IN /\ computed = Some(<< claim_amounts - TargetFee(taken), estimator[taken] >>)
                /\ Unwrap(computed)[1] > 0
                /\ Unwrap(computed)[1] <= claim_amounts

\* the HighPriority fee is exactly the claim, so that Normal is taken
NormalTakenWhenHighPriorityEqualsClaim ==
    /\ Computed
    /\ feerate_previous = 0
    /\ TargetFee("HighPriority") = claim_amounts
    /\ TargetFee("Normal") > 0
    /\ Len(computed) = 1
    /\ Unwrap(computed)[2] = estimator.Normal

\* the fee a bump attempt starts from: the HighPriority fee when the previous
\* feerate is below the HighPriority feerate, else the previous feerate
\* raised by a third
BumpFee ==
    IF feerate_previous < estimator.HighPriority
    THEN TargetFee("HighPriority")
    ELSE (feerate_previous * claim_weight) \div 750

\* C17: on a bump attempt, whenever input_amounts <= the fee the bump starts
\* from, compute_output_value returns Some((0, feerate)).
BumpBurnsClaimWhenFeeExceedsIt ==
    (fee_op \in {"computed", "panicked"} /\ feerate_previous # 0 /\ claim_amounts <= BumpFee) =>
        /\ Computed
        /\ Len(computed) = 1
        /\ Unwrap(computed)[1] = 0

PreviousFee == (feerate_previous * claim_weight) \div 1000

MinRelayFee == (MIN_RELAY_FEE_SAT_PER_1000_WEIGHT * claim_weight) \div 1000

Bumped == feerate_bump(claim_weight, claim_amounts, feerate_previous, estimator)

Candidate == bump_candidate(claim_weight, claim_amounts, feerate_previous, estimator)

\* C18: for predicted_weight > 0 and previous_feerate > 0, a fee returned by
\* feerate_bump is at least previous_feerate * weight / 1000 +
\* MIN_RELAY_FEE_SAT_PER_1000_WEIGHT * weight / 1000, and is exactly that
\* when the fee the bump starts from is below it; for weight 1000, input
\* 1_000_000, previous feerate 5000 and HighPriority 5000 the fee is
\* max(5000 * 1000 / 750, 5000 + min relay fee).
BumpPaysPreviousFeeAndRelayFee ==
    (Computed /\ claim_weight > 0 /\ feerate_previous > 0 /\ Len(Bumped.returned) = 1) =>
        LET new_fee == Unwrap(Bumped.returned)[1]
        IN /\ new_fee >= PreviousFee + MinRelayFee
           /\ Unwrap(Candidate) < PreviousFee + MinRelayFee => new_fee = PreviousFee + MinRelayFee
           /\ (/\ claim_weight = 1000 /\ claim_amounts = 1000000
               /\ feerate_previous = 5000 /\ estimator.HighPriority = 5000)
              => /\ new_fee = (IF (5000 * 1000) \div 750 > 5000 + MinRelayFee
                               THEN (5000 * 1000) \div 750 ELSE 5000 + MinRelayFee)
                 /\ Len(computed) = 1
                 /\ Unwrap(computed)[1] = claim_amounts - new_fee

\* the bump of the example: a third more than the previous fee is less than
\* the previous fee and the relay fee together
BumpRaisedToFloor ==
    /\ Computed
    /\ claim_weight = 1000 /\ claim_amounts = 1000000
    /\ feerate_previous = 5000 /\ estimator.HighPriority = 5000
    /\ Len(Bumped.returned) = 1
    /\ Unwrap(Candidate) < PreviousFee + MinRelayFee
    /\ Unwrap(Bumped.returned)[1] = PreviousFee + MinRelayFee

(***************************************************************************)
(* Properties of package_finalize                                          *)
(***************************************************************************)
FinalizeCalled == package_op \in {"finalized", "panicked"}

\* the operation of the signer that package_finalize relies on fails for
\* the package
SignerFails ==
    CASE IsMalleable(package) -> outpoints(package) \cap signer.sign_fails # {}
      [] package.variant = "LocalHTLCTx" -> ~signer.htlc_tx_signed
      [] package.variant = "LocalCommitmentTx" -> ~signer.local_tx_signed

\* C19: package_finalize returns None whenever the operation of the signer
\* it relies on fails, for each of the four variants; it never returns a
\* transaction with an input whose witness is empty and never panics when
\* the signer fails.
FinalizeGivesNoneWhenSignerFails ==
    FinalizeCalled =>
        /\ SignerFails => (package_op = "finalized" /\ finalized = None)
        /\ (package_op = "finalized" /\ Len(finalized) = 1) =>
              \A i \in 1..Len(Unwrap(finalized).input) :
                  Len(Unwrap(finalized).input[i].witness) > 0

(***************************************************************************)
(* Properties of the liquidity used by the returned paths                  *)
(***************************************************************************)
AllHops == UNION {{<< p, h >> : h \in 1..Len(result.paths[p])} : p \in 1..Len(result.paths)}

HopsOver(scid) == {ph \in AllHops : HopOf(ph).short_channel_id = scid}

\* what a path sends over the channel of its hop h: the value it delivers and
\* the fees of the hops after h, which are the fee_msat of hops h and later
AmountOverHop(ph) ==
    LET path == result.paths[ph[1]]
    IN SumSeq([j \in 1..(Len(path) - ph[2] + 1) |-> path[ph[2] + j - 1].fee_msat])

AmountOver(scid) == SumOver(HopsOver(scid), [ph \in HopsOver(scid) |-> AmountOverHop(ph)])

\* C20: the paths of a returned route together send over no channel more
\* than the available liquidity that was derived for it when it was first
\* considered, and the bookkept liquidity of a channel is never negative.
NoChannelOverbooked ==
    /\ \A scid \in DOMAIN Bookkept : Bookkept[scid] >= 0
    /\ ReturnedRoute =>
          \A scid \in DOMAIN Bookkept :
              HopsOver(scid) # {} =>
                  \E l \in StartingLiquidities(scid) : AmountOver(scid) <= l

(***************************************************************************)
(* Properties of the path collection loop                                  *)
(***************************************************************************)
\* ConstructPath has accepted a path into payment_paths in this step
PathAccepted == Len(payment_paths') = Len(payment_paths) + 1

\* what was left to collect when the search of the accepted path started
ValueLeftToCollect ==
    routing_state.recommended_value_msat - routing_state.already_collected_value_msat

CollectedByStep ==
    routing_state'.already_collected_value_msat - routing_state.already_collected_value_msat

\* C21: every path accepted into the collection strictly increases
\* already_collected_value_msat, by at least the 5% of the value that was
\* left to collect when the search of the path started (the twentieth that
\* add_vertice computes).
AcceptedPathAddsFivePercent ==
    [][PathAccepted =>
          /\ CollectedByStep > 0
          /\ CollectedByStep >= ValueLeftToCollect \div 20]_vars

(***************************************************************************)
(* Properties of update_value_and_recompute_fees                           *)
(***************************************************************************)
PathUpdated == path_op = "updated"

\* the recomputed fees of the hops after hop i of a path
FeesAfter(path, i) == SumSeq([j \in 1..(Len(path) - i) |-> path[i + j].hop_use_fee_msat])

\* C22: after update_value_and_recompute_fees(V) the last hop's fee_msat is
\* V; every hop but the first has following_hops_fees_msat equal to the sum
\* of the recomputed hop_use_fee_msat of the hops after it and hop_use_fee_msat
\* equal to compute_fees(V + following_hops_fees_msat, channel_fees); every
\* hop but the last has fee_msat equal to the next hop's hop_use_fee_msat.
PathFeesRecomputed ==
    PathUpdated =>
        LET n == Len(recomputed_hops)
        IN /\ n = Len(recompute_hops)
           /\ recomputed_hops[n].route_hop.fee_msat = recompute_value
           /\ \A i \in 2..n :
                 /\ recomputed_hops[i].following_hops_fees_msat = FeesAfter(recomputed_hops, i)
                 /\ recomputed_hops[i].hop_use_fee_msat
                        = compute_fees(recompute_value + recomputed_hops[i].following_hops_fees_msat,
                                       recomputed_hops[i].channel_fees)
           /\ \A i \in 1..(n - 1) :
                 recomputed_hops[i].route_hop.fee_msat = recomputed_hops[i + 1].hop_use_fee_msat

\* a path of three hops that held earlier fees was updated, and a fee is
\* paid after its second hop
ThreeHopPathRecomputed ==
    /\ PathUpdated
    /\ Len(recomputed_hops) = 3
    /\ recompute_hops[2].hop_use_fee_msat = 7
    /\ recomputed_hops[2].following_hops_fees_msat > 7
    /\ recomputed_hops[2].hop_use_fee_msat > 0

(***************************************************************************)
(* Properties of compute_fees                                              *)
(***************************************************************************)
FeesCalled == path_op \in {"fees computed", "fees panicked"}

\* the multiplication or the addition of the fee does not fit 64 bits
FeeOverflows ==
    \/ /\ fee_params.proportional_millionths # 0
       /\ fee_amount > U64_MAX \div fee_params.proportional_millionths
    \/ fee_params.base_msat
            > U64_MAX - ((fee_amount * fee_params.proportional_millionths) \div 1000000)

ExactFee ==
    fee_params.base_msat + ((fee_amount * fee_params.proportional_millionths) \div 1000000)

\* C23: compute_fees returns base_msat + amount_msat * proportional_millionths
\* / 1_000_000, and when the multiplication or the addition overflows 64 bits
\* it returns u64::MAX instead, without aborting.
ComputeFeesSaturates ==
    FeesCalled =>
        /\ path_op = "fees computed"
        /\ fee_computed = Some(IF FeeOverflows THEN U64_MAX ELSE ExactFee)

\* without overflow compute_fees returns the exact fee
ComputeFeesExactWithoutOverflow ==
    (FeesCalled /\ ~FeeOverflows) => fee_computed = Some(ExactFee)

(***************************************************************************)
(* Properties of the 64-bit arithmetic of get_route                        *)
(***************************************************************************)
\* a path was walked, so the bottleneck of router.rs 633 was computed
BottleneckComputed == payment_paths # << >> \/ result = MultiplyOverflow

\* C24: for a final_value_msat up to MAX_VALUE_MSAT no 64-bit arithmetic of
\* get_route aborts on overflow or wraps: the call never panics on a
\* multiplication, and final_value_msat * 10 fits 64 bits whenever it is
\* computed.
ArithmeticNeverOverflows ==
    /\ result # MultiplyOverflow
    /\ (BottleneckComputed /\ final_value_msat <= MAX_VALUE_MSAT) =>
           final_value_msat <= U64_MAX \div 10

(***************************************************************************)
(* Properties of the feerate over the bump attempts of one claim           *)
(***************************************************************************)
BumpAttempted == Computed /\ claim_weight > 0 /\ feerate_previous > 0

BumpReturns == fee_op = "idle" /\ fee_op' = "computed" /\ computed' # None

FeerateStored == fee_op = "computed" /\ fee_op' = "idle"

\* C25: a bump attempt (previous feerate above 0, weight above 0) that
\* returns a feerate returns one above the previous feerate; so when every
\* returned feerate is stored as the next feerate_previous, feerate_previous
\* strictly increases from bump to bump.
FeerateRisesOverBumps ==
    [][(claim_weight > 0 /\ feerate_previous > 0) =>
          /\ BumpReturns => Unwrap(computed')[2] > feerate_previous
          /\ FeerateStored => feerate_previous' > feerate_previous]_vars

\* the third attempt of a claim returned a feerate above the two stored
\* before it
ThirdAttemptRaisedFeerate ==
    /\ BumpAttempted
    /\ fee_attempts = 2
    /\ computed # None
    /\ Unwrap(computed)[1] > 0
    /\ Unwrap(computed)[2] > feerate_previous

\* ---------------------------------------------------------------------
\* C26: the witness part of what package_weight returns is 2 plus the sum
\* of the per-input weights (243, 249, 242, 217, 155 by descriptor), the 2
\* for the segwit flags being counted once per transaction; a RemoteHTLCTx
\* input counts as OfferedHTLC with a preimage, else as ReceivedHTLC; the
\* Local variants weigh 0.
PackageWeighed == package_op = "weighed" /\ weighed # None

WitnessPart ==
    Unwrap(weighed).weight
    - get_weight(Cardinality(DOMAIN package.inputs), Unwrap(weighed).destination_script)

RECURSIVE SumOfInputWeights(_)
SumOfInputWeights(inputs) ==
    IF DOMAIN inputs = {}
    THEN 0
    ELSE LET o == CHOOSE k \in DOMAIN inputs : TRUE
             outp == inputs[o]
             w == IF "input_descriptor" \in DOMAIN outp
                  THEN descriptor_weight(outp.input_descriptor)
                  ELSE IF outp.preimage # None THEN 242 ELSE 217
         IN w + SumOfInputWeights([k \in DOMAIN inputs \ {o} |-> inputs[k]])

SegwitFlagsCountedOnce ==
    PackageWeighed =>
        IF package.variant \in {"MalleableJusticeTx", "RemoteHTLCTx"}
        THEN Cardinality(DOMAIN package.inputs) >= 1 =>
                WitnessPart = 2 + SumOfInputWeights(package.inputs)
        ELSE Unwrap(weighed).weight = 0

\* What the code computes instead: the flags once per input.
SegwitFlagsCountedPerInput ==
    PackageWeighed =>
        IF package.variant \in {"MalleableJusticeTx", "RemoteHTLCTx"}
        THEN WitnessPart = 2 * Cardinality(DOMAIN package.inputs)
                           + SumOfInputWeights(package.inputs)
        ELSE Unwrap(weighed).weight = 0

DescriptorWeightsAsTabulated ==
    /\ descriptor_weight("RevokedOfferedHTLC") = 243
    /\ descriptor_weight("RevokedReceivedHTLC") = 249
    /\ descriptor_weight("OfferedHTLC") = 242
    /\ descriptor_weight("ReceivedHTLC") = 217
    /\ descriptor_weight("RevokedOutput") = 155

\* ---------------------------------------------------------------------
\* C27: after any sequence of request_merge calls that returned, applied
\* to OnchainRequest::default() with requests of one malleable variant and
\* one height_original, the outpoints of the content are the union of the
\* outpoints of the merged requests; no outpoint merged earlier is dropped,
\* also when a merged request has absolute_timelock 2^32-1.
StartedFromDefault ==
    /\ request.aggregation = DefaultOnchainRequest.aggregation
    /\ request.bump_strategy = DefaultOnchainRequest.bump_strategy
    /\ request.feerate_previous = DefaultOnchainRequest.feerate_previous
    /\ request.height_timer = DefaultOnchainRequest.height_timer

SameVariantAndHeight(requests) ==
    \A i, j \in 1..Len(requests) :
        /\ requests[i].content.variant = requests[j].content.variant
        /\ requests[i].content.variant \in {"MalleableJusticeTx", "RemoteHTLCTx"}
        /\ requests[i].height_original = requests[j].height_original

MergedOutpoints(requests) ==
    UNION {outpoints(requests[i].content) : i \in 1..Len(requests)}

MergedOutpointsNeverDropped ==
    (RequestMerged /\ StartedFromDefault /\ SameVariantAndHeight(merged_requests)) =>
        outpoints(request.content) = MergedOutpoints(merged_requests)

\* The same with every merged request's timelock below 2^32-1.
MergedOutpointsKeptBelowMaxTimelock ==
    (/\ RequestMerged
     /\ StartedFromDefault
     /\ SameVariantAndHeight(merged_requests)
     /\ \A i \in 1..Len(merged_requests) : merged_requests[i].absolute_timelock # U32_MAX) =>
        outpoints(request.content) = MergedOutpoints(merged_requests)

\* ---------------------------------------------------------------------
\* C28: for every PaymentPath after update_value_and_recompute_fees, when
\* it is collected and again after the overpayment reduction,
\* get_total_fee_paid_msat() is the fees paid along the path: the sum of
\* route_hop.fee_msat over every hop but the last.
FeesPaidAlong(path) ==
    SumSeq([i \in 1..(Len(path) - 1) |-> path[i].route_hop.fee_msat])

TotalFeeIsFeesPaid ==
    \A i \in 1..Len(payment_paths) :
        get_total_fee_paid_msat(payment_paths[i]) = FeesPaidAlong(payment_paths[i])

\* The total does hold the fees paid after the second hop's channel, which
\* is what the first loop of update_value_and_recompute_fees leaves in
\* every hop but the first.
FollowingFeesOfLaterHops ==
    \A i \in 1..Len(payment_paths) :
        \A h \in 2..Len(payment_paths[i]) :
            payment_paths[i][h].following_hops_fees_msat
                = SumSeq([k \in 1..(Len(payment_paths[i]) - h) |->
                            payment_paths[i][h + k - 1].route_hop.fee_msat])

\* ---------------------------------------------------------------------
\* C29: in every returned route the amount forwarded over each channel of
\* each path (the path's value and the fees paid after that channel) is at
\* least the htlc_minimum_msat of the channel's direction, or of the route
\* hint for a last hop, also after the value of the path was reduced to its
\* bottleneck or for overpayment.
HtlcMinimumOf(ph) ==
    IF IsGraphChannel(HopOf(ph).short_channel_id)
    THEN Unwrap(DirectionFrom(HopOf(ph).short_channel_id, SourceOf(ph))).htlc_minimum_msat
    ELSE LET hints == {i \in 1..Len(last_hops) :
                          /\ last_hops[i].short_channel_id = HopOf(ph).short_channel_id
                          /\ last_hops[i].src_node_id = SourceOf(ph)}
         IN IF hints = {} THEN 0
            ELSE last_hops[CHOOSE i \in hints : TRUE].htlc_minimum_msat

ForwardsAtLeastHtlcMinimum ==
    ReturnedRoute => \A ph \in AllHops : AmountOverHop(ph) >= HtlcMinimumOf(ph)

\* a route is returned over a channel that has a minimum
RouteOverChannelWithMinimum ==
    ReturnedRoute /\ \E ph \in AllHops : HtlcMinimumOf(ph) > 0

(***************************************************************************)
(* Properties of CustomMsgHandler                                          *)
(***************************************************************************)
ProcessPanicked == app_op \in {"drain panicked", "read panicked", "write panicked"}

RECURSIVE Flatten(_)
Flatten(lists) == IF lists = << >> THEN << >> ELSE Head(lists) \o Flatten(Tail(lists))

\* C30: under any interleaving of handle_header, process_pending_events and
\* get_and_clear_pending_msg_events, process_pending_events never panics,
\* whatever the number of headers queued in to_validation; and
\* get_and_clear_pending_msg_events returns the headers of to_network in
\* their order, in messages of at most 818 headers each, and leaves
\* to_network empty, no header lost or duplicated.
HandlerNeverPanicsAndBroadcastsInOrder ==
    /\ ~ProcessPanicked
    /\ app_op = "cleared" =>
          /\ to_network = << >>
          /\ Flatten(msg_events) = network_before
          /\ \A i \in 1..Len(msg_events) : Len(msg_events[i]) \in 1..HEADERS_PER_MSG

\* process_pending_events panics exactly in the drain whenever fewer than
\* the full drain range is queued
DrainPanicsBelowFullRange ==
    [][(process_pc = "start" /\ process_pc' = "stream" /\ "to_validation" \notin poisoned)
          => Len(to_validation) >= HEADERS_PER_MSG * DRAIN_FACTOR]_vars

\* nothing ever reaches to_network: valid_headers is read from an empty buffer
ToNetworkStaysEmpty == to_network = << >> /\ valid_headers = << >>

\* after the panic of the drain, handle_header returns Ok and drops the headers
HeadersDroppedAfterPanic ==
    [][("to_validation" \in poisoned /\ app_op' = "handled") => to_validation' = to_validation]_vars

====
